---- MODULE Spec2Model ----
(***************************************************************************)
(* Gait / squat cycle segmentation and scalar metrics of opencap-analysis. *)
(* Frame indices are 0-based as in the Python source; TLA+ sequences are   *)
(* 1-based, so a numpy array a is the sequence s with a[i] = s[i+1].       *)
(***************************************************************************)
EXTENDS Integers, Sequences, FiniteSets, TLC

\* ---------------------------------------------------------------- bounds
\* frames of the trials fed to the ordering check alone
NumFrames == 5
\* peaks per event stream fed to the ordering check alone
MaxPeaks == 2
\* events of a walking trial fed to the segmentation
MaxEvents == 9
\* pairs of events of a walking trial that share a frame
MaxTies == 1
\* largest n_gait_cycles requested
MaxRequested == 2

VARIABLES
    pc,             \* position in the operation being run
    peaks,          \* rHS, rTO, lHS, lTO of the last detect_gait_peaks call
    orderOk,        \* result of the last detect_correct_order call
    promIdx,        \* 1-based position in prominences of the current try
    leg,            \* argument leg of segment_walking
    n_gait_cycles,  \* argument n_gait_cycles of segment_walking
    gaitEvents,     \* value returned by segment_walking
    signal,         \* the foot signals of the trial, as the events they hold
    error,          \* exception raised, "" when none
    call,           \* receiver class and arguments of compute_scalars
    scalarDict,     \* value returned by compute_scalars
    invoked,        \* the calculators compute_scalars has called, in order
    message,        \* names listed by the message of the exception raised
    time,           \* markerDict['time'], by frame
    treadmillSpeed, \* speed of the belt, 0 overground
    calcX,          \* forward position of the calcaneus markers, by frame
    doubleSupport,  \* last value returned by compute_double_support_time
    singleSupport,  \* last value returned by compute_single_support_time
    symmetry,       \* last value returned by compute_step_length_symmetry
    ankleX,         \* forward position of the ankle markers, by frame
    speed,          \* last call of compute_treadmill_speed and what it returned
    klass,          \* class of the object under construction
    coordTime,      \* coordinateValues['time'], by frame
    pelvis_ty,      \* coordinateValues['pelvis_ty'], by frame
    trimming_start, \* argument trimming_start of __init__, in ms
    trimming_end,   \* argument trimming_end of __init__, in ms
    n_repetitions,  \* argument n_repetitions of squat_analysis.__init__
    selfTime,       \* self.time of the squat object
    squatEvents,    \* self.squatEvents
    segmentCalls,   \* number of calls of segment_walking / segment_squat
    coordinateValues, \* self.coordinateValues of the squat object, by column
    nRepetitions,   \* self.nRepetitions
    ratio,          \* last call of compute_ratio_peak_angle and what it returned
    comCache,       \* self._comValues
    frameCache,     \* self._R_world_to_gait
    comComputations,   \* executions of get_center_of_mass_values so far
    frameComputations, \* executions of compute_gait_frame so far
    lastCom,        \* last call of comValues and what it returned
    gotEvents,      \* value returned by the last get_gait_events
    markerVectors,  \* marker displacements of one gait cycle
    gaitFrame,      \* the matrix compute_gait_frame returned for the cycle
    legCache,       \* self._leg_length
    legComputations,   \* executions of the body of leg_length so far
    lastLeg,        \* what the last call of leg_length returned
    rotated,        \* by frame, the cycles whose matrix rotated the frame
    reduced,        \* by consumer, the frames of each repetition it read and
                    \* what it returned
    stride,         \* last value returned by compute_stride_length
    steps,          \* last value returned by compute_step_length
    kwargs,         \* fields of json.loads(event['body']) of the gait handler
    gait_events,    \* by leg, what get_gait_events returned to the handler
    last_leg,       \* the leg whose cycle ends last
    gait_scalars,   \* by scalar name, the keys of its dictionary
    thresholds,     \* by scalar name, its threshold value and decimal
    pending,        \* scalar names the metrics loop has not visited yet
    metrics_out,    \* by scalar name visited, its entry of the answer
    response        \* what the handler returned

segVars == <<peaks, orderOk, promIdx, leg, n_gait_cycles, gaitEvents, signal>>

scalarVars == <<call, scalarDict, invoked, message>>

metricVars == <<time, treadmillSpeed, calcX, doubleSupport, singleSupport, symmetry>>

speedVars == <<ankleX, speed>>

constructVars == <<klass, coordTime, pelvis_ty, trimming_start, trimming_end,
                   n_repetitions, selfTime, squatEvents, segmentCalls>>

squatVars == <<coordinateValues, nRepetitions, ratio>>

legVars == <<legCache, legComputations, lastLeg>>

handlerVars == <<kwargs, gait_events, last_leg, gait_scalars, thresholds, pending,
                 metrics_out, response>>

tailVars == <<reduced, stride, steps, handlerVars>>

laterVars == <<legVars, rotated, tailVars>>

frameVars == <<markerVectors, gaitFrame, laterVars>>

cacheVars == <<comCache, frameCache, comComputations, frameComputations, lastCom,
               gotEvents, frameVars>>

extraVars == <<speedVars, constructVars, squatVars, cacheVars>>

vars == <<pc, error, segVars, scalarVars, metricVars, extraVars>>

\* ------------------------------------------------------------- helpers
SetMax(S) == CHOOSE x \in S : \A y \in S : y <= x

\* strictly increasing sequences over F of length at most k: what
\* scipy.signal.find_peaks returns (sorted, distinct indices)
IncSeqs(F, k) ==
    { s \in UNION { [1..n -> F] : n \in 0..k } :
        \A i \in 1..(Len(s) - 1) : s[i] < s[i + 1] }

\* the keys of the dict `vectors`, in insertion order
VectorNames == <<"rHS", "rTO", "lHS", "lTO">>

NameSet == { VectorNames[i] : i \in 1..4 }

NoPeaks == [ k \in NameSet |-> <<>> ]

NoSignal == [ s |-> 1, n |-> 0, K |-> {}, missed |-> <<0, 0, 0>> ]

NoCall == [ cls |-> "gait_analysis", scalarNames |-> [ none |-> TRUE ],
            return_all |-> FALSE ]

NoDict == [ none |-> FALSE, entries |-> <<>> ]

NoScalarVars ==
    /\ call = NoCall
    /\ scalarDict = NoDict
    /\ invoked = <<>>
    /\ message = <<>>

NoReturn == [ called |-> FALSE, return_all |-> FALSE, value |-> <<>>, units |-> "" ]

NoMetricVars ==
    /\ time = <<>>
    /\ treadmillSpeed = 0
    /\ calcX = <<>>
    /\ doubleSupport = NoReturn
    /\ singleSupport = NoReturn
    /\ symmetry = NoReturn

NoSpeedCall == [ called |-> FALSE, gait_style |-> "", threshold |-> <<>>,
                 return_all |-> FALSE, value |-> <<>> ]

NoSpeedVars ==
    /\ ankleX = <<>>
    /\ speed = NoSpeedCall

NoConstructVars ==
    /\ klass = "gait_analysis"
    /\ coordTime = <<>>
    /\ pelvis_ty = <<>>
    /\ trimming_start = 0
    /\ trimming_end = 0
    /\ n_repetitions = -1
    /\ selfTime = [ set |-> FALSE, t |-> <<>> ]
    /\ squatEvents = [ eventIdxs |-> <<>>, eventTimes |-> <<>> ]
    /\ segmentCalls = 0

NoRatioCall == [ called |-> FALSE, coordinate_a |-> "", coordinate_b |-> "",
                 peak_type |-> "", return_all |-> FALSE,
                 value |-> <<>>, std |-> <<>>, units |-> "" ]

NoSquatVars ==
    /\ coordinateValues = <<>>
    /\ nRepetitions = 0
    /\ ratio = NoRatioCall

\* a trajectory of the center of mass: None, or the one computed with the
\* cutoff frequency filt_freq
NoTrajectory == [ none |-> TRUE, filt_freq |-> -1 ]

NoComCall == [ called |-> FALSE, rotate |-> "", filt_freq |-> -1, value |-> NoTrajectory ]

Zero3 == <<0, 0, 0>>

\* a vector dir * sqrt(sq): the squared scale is kept instead of its root
Vec(dir, sq) == [ dir |-> dir, sq |-> sq ]

NoVec == Vec(Zero3, [ k |-> "fin", n |-> 1, d |-> 1 ])

NoFrame == [ computed |-> FALSE, x |-> NoVec, y |-> NoVec, z |-> NoVec ]

NoLengths == [ none |-> TRUE, ipsilateral |-> "", contralateral |-> "" ]

NoLegVars ==
    /\ legCache = NoLengths
    /\ legComputations = 0
    /\ lastLeg = [ called |-> FALSE, value |-> NoLengths ]

NoRotation == [ called |-> FALSE, by |-> <<>> ]

Consumers == {"peak_angle", "range_of_motion", "segmented", "segmented_normalized_time"}

NoReduction == [ called |-> FALSE, frames |-> <<>>, value |-> <<>> ]

NoLengthCall == [ called |-> FALSE, return_all |-> FALSE, value |-> <<>>, units |-> "" ]

\* the gait handler has not been invoked
NoHandlerVars ==
    /\ kwargs = {}
    /\ gait_events = <<>>
    /\ last_leg = ""
    /\ gait_scalars = <<>>
    /\ thresholds = <<>>
    /\ pending = {}
    /\ metrics_out = <<>>
    /\ response = [ statusCode |-> 0, body |-> <<>> ]

NoTailVars ==
    /\ reduced = [ c \in Consumers |-> NoReduction ]
    /\ stride = NoLengthCall
    /\ steps = NoLengthCall
    /\ NoHandlerVars

NoLaterVars ==
    /\ NoLegVars
    /\ rotated = NoRotation
    /\ NoTailVars

NoFrameVars ==
    /\ NoLaterVars
    /\ markerVectors = [ treadmillSpeed |-> 0, pelvisCenter |-> Zero3,
                         anklePos |-> Zero3, asisVector |-> Zero3 ]
    /\ gaitFrame = NoFrame

NoCacheVars ==
    /\ NoFrameVars
    /\ comCache = NoTrajectory
    /\ frameCache = FALSE
    /\ comComputations = 0
    /\ frameComputations = 0
    /\ lastCom = NoComCall
    /\ gotEvents = [ called |-> FALSE, value |-> <<>> ]

NoExtraVars ==
    /\ NoSpeedVars
    /\ NoConstructVars
    /\ NoSquatVars
    /\ NoCacheVars

NoEvents == [ ipsilateralIdx |-> <<>>, contralateralIdx |-> <<>>,
              ipsilateralLeg |-> "" ]

\* ------------------------------------------------ detect_correct_order
expectedOrder == [ rHS |-> "lTO", lTO |-> "lHS", lHS |-> "rTO", rTO |-> "rHS" ]

non_empty_vectors(vectors) == { k \in NameSet : Len(vectors[k]) > 0 }

\* min(non_empty_vectors, key=first element) of a Python dict with ties
\* resolved the other way: the last key holding the smallest value
MinNameLastTie(vectors) ==
    LET ne == non_empty_vectors(vectors)
        m == CHOOSE i \in 1..4 :
               /\ VectorNames[i] \in ne
               /\ \A j \in 1..4 : VectorNames[j] \in ne =>
                     vectors[VectorNames[i]][1] <= vectors[VectorNames[j]][1]
               /\ \A j \in (i + 1)..4 : VectorNames[j] \in ne =>
                     vectors[VectorNames[j]][1] # vectors[VectorNames[i]][1]
    IN  VectorNames[m]

\* min(non_empty_vectors, key=lambda k: non_empty_vectors[k][0]): Python's
\* min returns the first key, in dict order, that holds the smallest value
MinName(vectors) ==
    LET ne == non_empty_vectors(vectors)
        m == CHOOSE i \in 1..4 :
               /\ VectorNames[i] \in ne
               /\ \A j \in 1..4 : VectorNames[j] \in ne =>
                     vectors[VectorNames[i]][1] <= vectors[VectorNames[j]][1]
               /\ \A j \in 1..(i - 1) : VectorNames[j] \in ne =>
                     vectors[VectorNames[j]][1] # vectors[VectorNames[i]][1]
    IN  VectorNames[m]

\* one pass of the while loop: delete the head of vName1, find vName2
RECURSIVE OrderLoop(_, _)
OrderLoop(vectors, vName1) ==
    LET deleted == [ vectors EXCEPT ![vName1] = Tail(@) ]
    IN  IF non_empty_vectors(deleted) = {}
        THEN TRUE
        ELSE LET vName2 == MinName(deleted)
             IN  IF vName2 # expectedOrder[vName1]
                 THEN FALSE
                 ELSE OrderLoop(deleted, vName2)

detect_correct_order(rHS, rTO, lHS, lTO) ==
    LET vectors == [ rHS |-> rHS, rTO |-> rTO, lHS |-> lHS, lTO |-> lTO ]
    IN  IF non_empty_vectors(vectors) = {}
        THEN TRUE
        ELSE OrderLoop(vectors, MinName(vectors))

\* ------------------------------------------ ordering check on its own
OrderStreams == IncSeqs(0..(NumFrames - 1), MaxPeaks)

InitOrder ==
    /\ pc = "order_start"
    /\ peaks \in [ NameSet -> OrderStreams ]
    /\ orderOk = FALSE
    /\ promIdx = 1
    /\ leg = "auto"
    /\ n_gait_cycles = -1
    /\ gaitEvents = NoEvents
    /\ signal = NoSignal
    /\ error = ""
    /\ NoScalarVars
    /\ NoMetricVars
    /\ NoExtraVars

CheckOrder ==
    /\ pc = "order_start"
    /\ orderOk' = detect_correct_order(peaks.rHS, peaks.rTO, peaks.lHS, peaks.lTO)
    /\ pc' = "order_done"
    /\ UNCHANGED <<peaks, promIdx, leg, n_gait_cycles, gaitEvents, signal, error, scalarVars, metricVars, extraVars>>

NextOrder == CheckOrder

SpecOrder == InitOrder /\ [][NextOrder]_vars

\* ------------------------------------------------------ claims: ordering
\* position of each key in the dict `vectors`
DictPrio == [ k \in NameSet |-> CHOOSE i \in 1..4 : VectorNames[i] = k ]

\* every way of ranking the four streams
Prios == { p \in [ NameSet -> 1..4 ] : \A a, b \in NameSet : a # b => p[a] # p[b] }

EventSet(pk) ==
    UNION { { [ name |-> k, idx |-> pk[k][j] ] : j \in 1..Len(pk[k]) } : k \in NameSet }

\* e comes before f when the streams are merged by ascending frame index,
\* events of one frame being ranked by prio
Before(e, f, prio) ==
    \/ e.idx < f.idx
    \/ e.idx = f.idx /\ prio[e.name] < prio[f.name]

\* in the merged sequence every event is immediately followed by its
\* successor in the cycle rHS -> lTO -> lHS -> rTO -> rHS
Chain(pk, prio) ==
    \A e, f \in EventSet(pk) :
        ( /\ Before(e, f, prio)
          /\ ~ \E g \in EventSet(pk) : Before(e, g, prio) /\ Before(g, f, prio) )
        => f.name = expectedOrder[e.name]

SharedFrame(pk) ==
    \E e, f \in EventSet(pk) : e.name # f.name /\ e.idx = f.idx

\* C1: detect_correct_order returns True exactly when the four streams,
\* merged by ascending frame index, form the cycle rHS -> lTO -> lHS -> rTO
\* -> rHS, for some way of merging the events that share a frame
C1_OrderIffCycle ==
    pc = "order_done" => ( orderOk <=> \E prio \in Prios : Chain(peaks, prio) )

\* ------------------------------------------------------ segment_walking
\* set -> ascending sequence
SortedSeq(S) ==
    [ i \in 1..Cardinality(S) |->
        CHOOSE x \in S : Cardinality({ y \in S : y < x }) = i - 1 ]

Range(s) == { s[i] : i \in 1..Len(s) }

\* the prominences without the lowest one
prominences_two == <<30, 25>>

\* prominences = [0.3, 0.25, 0.2], in hundredths
prominences == <<30, 25, 20>>

\* The foot signals of a walking trial hold n events that follow one
\* another in the cycle from the s-th event on, one frame apart, except the
\* events at the positions of K, which share the frame of their
\* predecessor.  find_peaks keeps the peaks whose prominence reaches the
\* threshold: missed[i] is the position of the event too flat for
\* prominences[i] (0: none), and a lower threshold misses no more events.
CycleOrder == <<"rHS", "lTO", "lHS", "rTO">>

TypeAt(s, p) == CycleOrder[((s - 1 + p - 1) % 4) + 1]

FrameAt(K, p) == (p - 1) - Cardinality({ k \in K : k <= p })

Signals ==
    { [ s |-> s, n |-> n, K |-> K, missed |-> m ] :
        s \in 1..4,
        n \in 0..MaxEvents,
        K \in { T \in SUBSET (2..MaxEvents) : Cardinality(T) <= MaxTies },
        m \in { <<0, 0, 0>> } \cup
              UNION { { <<d, d, d>>, <<d, d, 0>>, <<d, 0, 0>> } : d \in 1..MaxEvents } }

WalkingSignals ==
    { g \in Signals : (\A k \in g.K : k <= g.n) /\ g.missed[1] <= g.n }

detect_gait_peaks(g, i) ==
    [ k \in NameSet |->
        SortedSeq({ FrameAt(g.K, p) :
                      p \in { q \in 1..g.n : TypeAt(g.s, q) = k /\ q # g.missed[i] } }) ]

Last(s) == s[Len(s)]

\* the comparison of the last heel-strikes, inverted
AutoLegFirst(rHS, lHS) == IF Last(rHS) < Last(lHS) THEN "r" ELSE "l"

\* leg == 'auto': the foot of the last heel-strike
AutoLeg(rHS, lHS) == IF Last(rHS) > Last(lHS) THEN "r" ELSE "l"

hsIpsOf(pk, lg)  == IF lg = "r" THEN pk.rHS ELSE pk.lHS
toIpsOf(pk, lg)  == IF lg = "r" THEN pk.rTO ELSE pk.lTO
\* the contralateral heel-strikes read from the ipsilateral leg
hsContSameLeg(pk, lg) == IF lg = "r" THEN pk.rHS ELSE pk.lHS

hsContOf(pk, lg) == IF lg = "r" THEN pk.lHS ELSE pk.rHS
toContOf(pk, lg) == IF lg = "r" THEN pk.lTO ELSE pk.rTO

\* the two ifs that settle n_gait_cycles
CyclesToProcess(n, nHS) ==
    LET n1 == IF nHS - 1 < n THEN nHS - 1 ELSE n
    IN  IF n1 = -1 THEN nHS - 1 ELSE n1

\* the window closed at its start
InsideFromLo(s, lo, hi) == { j \in 1..Len(s) : s[j] >= lo /\ s[j] < hi }

\* positions j (1-based) of the events of s strictly inside (lo, hi)
Inside(s, lo, hi) == { j \in 1..Len(s) : s[j] > lo /\ s[j] < hi }

\* the cycles counted from the first heel-strike of the trial
CycleRowFromStart(i, hsIps, toIps, hsCont, toCont) ==
    LET hs1 == hsIps[i + 1]
        hs2 == hsIps[i + 2]
        toIpsIn  == Inside(toIps, hs1, hs2)
        toContIn == Inside(toCont, hs1, hs2)
        hsContIn == Inside(hsCont, hs1, hs2)
        to   == IF toIpsIn = {} THEN 0 ELSE toIps[SetMax(toIpsIn)]
    IN  IF toContIn = {} \/ hsContIn = {}
        THEN [ ips |-> <<-1, -1, -1>>, cont |-> <<-1, -1>> ]
        ELSE [ ips |-> <<hs1, to, hs2>>,
               cont |-> <<toCont[SetMax(toContIn)], hsCont[SetMax(hsContIn)]>> ]

\* body of `for i in range(n_gait_cycles)`, i 0-based
CycleRow(i, hsIps, toIps, hsCont, toCont) ==
    LET hs1 == hsIps[Len(hsIps) - i - 1]
        hs2 == hsIps[Len(hsIps) - i]
        toIpsIn  == Inside(toIps, hs1, hs2)
        toContIn == Inside(toCont, hs1, hs2)
        hsContIn == Inside(hsCont, hs1, hs2)
        \* reverse iteration keeps the first hit: the last position inside
        to   == IF toIpsIn = {} THEN 0 ELSE toIps[SetMax(toIpsIn)]
    IN  IF toContIn = {} \/ hsContIn = {}
        THEN [ ips |-> <<-1, -1, -1>>, cont |-> <<-1, -1>> ]
        ELSE [ ips |-> <<hs1, to, hs2>>,
               cont |-> <<toCont[SetMax(toContIn)], hsCont[SetMax(hsContIn)]>> ]

\* no row is ever masked
mask_none(row) == FALSE

mask_ips(row) == \E c \in 1..3 : row.ips[c] = -1

\* segment_walking after the streams passed the ordering check
SegmentCycles(pk, legArg, nArg) ==
    IF legArg = "auto" /\ (pk.rHS = <<>> \/ pk.lHS = <<>>)
    THEN [ error |-> "IndexError", events |-> NoEvents ]
    ELSE
    LET lg     == IF legArg = "auto" THEN AutoLeg(pk.rHS, pk.lHS) ELSE legArg
        hsIps  == hsIpsOf(pk, lg)
        n      == CyclesToProcess(nArg, Len(hsIps))
        rows   == [ i \in 1..n |->
                      CycleRow(i - 1, hsIps, toIpsOf(pk, lg),
                               hsContOf(pk, lg), toContOf(pk, lg)) ]
        kept   == SelectSeq(rows, LAMBDA r : ~ mask_ips(r))
    IN  IF n < 0
        THEN [ error |-> "ValueError: negative dimensions are not allowed",
               events |-> NoEvents ]
        ELSE IF n < 1
        THEN [ error |-> "Exception: Not enough gait cycles found.",
               events |-> NoEvents ]
        ELSE IF kept = <<>>
        THEN [ error |-> "Exception: No good steps for leg.",
               events |-> NoEvents ]
        ELSE [ error |-> "",
               events |-> [ ipsilateralIdx   |-> [ i \in 1..Len(kept) |-> kept[i].ips ],
                            contralateralIdx |-> [ i \in 1..Len(kept) |-> kept[i].cont ],
                            ipsilateralLeg   |-> lg ] ]

InitSeg ==
    /\ pc = "detect"
    /\ peaks = NoPeaks
    /\ orderOk = FALSE
    /\ promIdx = 1
    /\ leg \in {"auto", "r", "l"}
    /\ n_gait_cycles \in -1..MaxRequested
    /\ gaitEvents = NoEvents
    /\ signal \in WalkingSignals
    /\ error = ""
    /\ NoScalarVars
    /\ NoMetricVars
    /\ NoExtraVars

\* one pass of `for i,prom in enumerate(prominences)`
TryProminence ==
    /\ pc = "detect"
    /\ \E pk \in { detect_gait_peaks(signal, promIdx) } :
       \E ok \in { detect_correct_order(pk.rHS, pk.rTO, pk.lHS, pk.lTO) } :
          /\ peaks' = pk
          /\ orderOk' = ok
          /\ IF ok
             THEN pc' = "segment" /\ UNCHANGED <<promIdx, error>>
             ELSE IF promIdx = Len(prominences)
             THEN /\ pc' = "raised"
                  /\ error' = "ValueError: The ordering of gait events is not correct. Consider trimming your trial using the trimming_start and trimming_end options."
                  /\ UNCHANGED promIdx
             ELSE /\ pc' = "detect"
                  /\ promIdx' = promIdx + 1
                  /\ UNCHANGED error
    /\ UNCHANGED <<leg, n_gait_cycles, gaitEvents, signal, scalarVars, metricVars, extraVars>>

\* the rest of segment_walking
Segment ==
    /\ pc = "segment"
    /\ \E r \in { SegmentCycles(peaks, leg, n_gait_cycles) } :
          /\ error' = r.error
          /\ gaitEvents' = r.events
          /\ pc' = IF r.error = "" THEN "returned" ELSE "raised"
    /\ UNCHANGED <<peaks, orderOk, promIdx, leg, n_gait_cycles, signal, scalarVars, metricVars, extraVars>>

NextSeg == TryProminence \/ Segment

SpecSeg == InitSeg /\ [][NextSeg]_vars

\* -------------------------------------------------- claims: segmentation
Ips  == gaitEvents.ipsilateralIdx
Cont == gaitEvents.contralateralIdx

\* the number of cycles asked of a leg with k heel-strikes
Wanted(n, k) == IF n = -1 \/ n > k - 1 THEN k - 1 ELSE n

\* the i-th window counted from the end of the trial, i = 1 the last one
Window(hs, i) == <<hs[Len(hs) - i], hs[Len(hs) - i + 1]>>

StrictlyIn(f, w) == w[1] < f /\ f < w[2]

\* the window holds a contralateral toe-off and a contralateral heel-strike
HasContralateral(pk, lg, w) ==
    /\ \E f \in Range(toContOf(pk, lg)) : StrictlyIn(f, w)
    /\ \E f \in Range(hsContOf(pk, lg)) : StrictlyIn(f, w)

\* the candidate windows of leg lg that are not to be dropped, latest first
Surviving(pk, lg, n) ==
    LET hs == hsIpsOf(pk, lg)
        m  == Wanted(n, Len(hs))
        all == [ i \in 1..m |-> Window(hs, i) ]
    IN  SelectSeq(all, LAMBDA w : HasContralateral(pk, lg, w))

NoneDropped(pk, lg, n) ==
    \A i \in 1..Wanted(n, Len(hsIpsOf(pk, lg))) :
        HasContralateral(pk, lg, Window(hsIpsOf(pk, lg), i))

\* the legs segment_walking may take as ipsilateral
LegsOf(pk, legArg) ==
    IF legArg # "auto" THEN {legArg}
    ELSE IF pk.rHS = <<>> \/ pk.lHS = <<>> THEN {"r", "l"}
    ELSE { lg \in {"r", "l"} :
             \A other \in {"r", "l"} \ {lg} :
                Last(hsIpsOf(pk, lg)) >= Last(hsIpsOf(pk, other)) }

\* C2: in every returned event set each row has heel-strike1 < toe-off <
\* heel-strike2 on the ipsilateral side, both contralateral events strictly
\* between the two heel-strikes, and the two index arrays have as many rows
C2_RowsWellFormed ==
    pc = "returned" =>
        /\ Len(Ips) = Len(Cont)
        /\ Len(Ips) >= 1
        /\ \A i \in 1..Len(Ips) :
              /\ Ips[i][1] < Ips[i][2] /\ Ips[i][2] < Ips[i][3]
              /\ StrictlyIn(Cont[i][1], <<Ips[i][1], Ips[i][3]>>)
              /\ StrictlyIn(Cont[i][2], <<Ips[i][1], Ips[i][3]>>)

\* two cycles returned from a trial in which two events share a frame
C2_Witness ==
    /\ pc = "returned"
    /\ Len(Ips) = 2
    /\ SharedFrame(peaks)

\* C3: with k ipsilateral heel-strikes and no cycle dropped, k-1 cycles are
\* returned when n_gait_cycles is -1 or exceeds k-1, n_gait_cycles cycles
\* when 1 <= n_gait_cycles <= k-1, and row i is bounded by the (i+1)-th-last
\* and the i-th-last heel-strike (rows counted from 1)
C3_CountAndBounds ==
    /\ pc = "returned" /\ NoneDropped(peaks, gaitEvents.ipsilateralLeg, n_gait_cycles) =>
          LET hs == hsIpsOf(peaks, gaitEvents.ipsilateralLeg)
          IN  /\ Len(Ips) = Wanted(n_gait_cycles, Len(hs))
              /\ \A i \in 1..Len(Ips) :
                    <<Ips[i][1], Ips[i][3]>> = Window(hs, i)
    /\ pc = "raised" /\ orderOk =>
          \A lg \in LegsOf(peaks, leg) :
             ~ ( /\ Len(hsIpsOf(peaks, lg)) >= 2
                 /\ n_gait_cycles # 0
                 /\ NoneDropped(peaks, lg, n_gait_cycles) )

\* one cycle asked of a leg with three heel-strikes
C3_Witness ==
    /\ pc = "returned"
    /\ n_gait_cycles = 1
    /\ Len(hsIpsOf(peaks, gaitEvents.ipsilateralLeg)) = 3
    /\ Len(Ips) = 1

\* C4: the cycles whose window lacks a contralateral toe-off or heel-strike
\* are removed, the others are returned in order, and segment_walking
\* raises exactly when none is left
C4_DropAndFail ==
    /\ pc = "returned" =>
          LET kept == Surviving(peaks, gaitEvents.ipsilateralLeg, n_gait_cycles)
          IN  /\ kept # <<>>
              /\ Len(Ips) = Len(kept)
              /\ \A i \in 1..Len(Ips) : <<Ips[i][1], Ips[i][3]>> = kept[i]
    /\ pc = "raised" /\ orderOk =>
          \A lg \in LegsOf(peaks, leg) : Surviving(peaks, lg, n_gait_cycles) = <<>>

\* two candidate cycles, one of them dropped
C4_Witness ==
    /\ pc = "returned"
    /\ Len(Ips) = 1
    /\ Wanted(n_gait_cycles, Len(hsIpsOf(peaks, gaitEvents.ipsilateralLeg))) = 2

\* C5: leg 'auto' takes the leg whose last heel-strike comes later, an
\* explicit leg is kept, and the ipsilateral events come from the streams
\* of that leg, the contralateral ones from the streams of the other leg
C5_LegSelection ==
    pc = "returned" =>
        LET lg == gaitEvents.ipsilateralLeg
            other == IF lg = "r" THEN "l" ELSE "r"
        IN  /\ lg \in {"r", "l"}
            /\ leg # "auto" => lg = leg
            /\ leg = "auto" =>
                  Last(hsIpsOf(peaks, lg)) > Last(hsIpsOf(peaks, other))
            /\ \A i \in 1..Len(Ips) :
                  /\ Ips[i][1] \in Range(hsIpsOf(peaks, lg))
                  /\ Ips[i][2] \in Range(toIpsOf(peaks, lg))
                  /\ Ips[i][3] \in Range(hsIpsOf(peaks, lg))
                  /\ Cont[i][1] \in Range(toIpsOf(peaks, other))
                  /\ Cont[i][2] \in Range(hsIpsOf(peaks, other))

\* leg 'auto' resolved to the right leg on a trial with two cycles
C5_Witness ==
    /\ pc = "returned"
    /\ leg = "auto"
    /\ gaitEvents.ipsilateralLeg = "r"
    /\ Len(Ips) = 2

\* ------------------------------------------------------- compute_scalars
\* longest list of scalar names passed to compute_scalars
MaxNames == 2

\* The methods named compute_<name> of each class, by <name>:
\*   required   - positional parameters without default, self apart
\*   return_all - the method takes the keyword return_all
\*   default    - length of the tuple returned with return_all=False
\*   all        - length of the tuple returned with return_all=True
\*   units      - the last element of the tuple is the units string
Calc(required, takes, default, all, units) ==
    [ required |-> required, return_all |-> takes,
      default |-> default, all |-> all, units |-> units ]

Scalar == Calc(0, TRUE, 2, 2, TRUE)

gait_analysis_methods ==
    [ scalars                     |-> Calc(1, TRUE, 1, 1, FALSE),
      stride_length               |-> Scalar,
      step_length                 |-> Scalar,
      step_length_symmetry        |-> Scalar,
      gait_speed                  |-> Scalar,
      cadence                     |-> Scalar,
      treadmill_speed             |-> Scalar,
      step_width                  |-> Scalar,
      stance_time                 |-> Scalar,
      swing_time                  |-> Scalar,
      single_support_time         |-> Scalar,
      double_support_time         |-> Scalar,
      midswing_dorsiflexion_angle |-> Scalar,
      midswing_ankle_heigh_dif    |-> Scalar,
      peak_angle                  |-> Calc(3, TRUE, 2, 2, TRUE),
      rom                         |-> Calc(3, TRUE, 2, 2, TRUE),
      correlations                |-> Calc(0, TRUE, 2, 2, FALSE),
      gait_frame                  |-> Calc(0, FALSE, 1, 1, FALSE) ]

squat_analysis_methods ==
    [ scalars          |-> Calc(1, TRUE, 1, 1, FALSE),
      peak_angle       |-> Calc(1, TRUE, 3, 2, TRUE),
      ratio_peak_angle |-> Calc(2, TRUE, 3, 2, TRUE),
      range_of_motion  |-> Calc(1, TRUE, 3, 2, TRUE) ]

Methods(cls) ==
    IF cls = "gait_analysis" THEN gait_analysis_methods ELSE squat_analysis_methods

\* the names <n> with 'compute_' + <n> in method_names
possibleMethods(cls) == DOMAIN Methods(cls)

\* thisFunction(return_all=return_all), unpacked into two targets
CallByName(m, return_all) ==
    IF m.required > 0 \/ ~ m.return_all
    THEN "TypeError"
    ELSE IF (IF return_all THEN m.all ELSE m.default) # 2
    THEN "ValueError"
    ELSE ""

\* the loop over scalarNames from position i on; acc is the work done so far
RECURSIVE ScalarLoop(_, _, _, _, _)
ScalarLoop(cls, names, return_all, i, acc) ==
    IF i > Len(names)
    THEN acc
    ELSE LET m == Methods(cls)[names[i]]
             e == CallByName(m, return_all)
             called == IF m.required > 0 \/ ~ m.return_all
                       THEN acc.invoked
                       ELSE Append(acc.invoked, names[i])
         IN  IF e # ""
             THEN [ acc EXCEPT !.error = e, !.invoked = called ]
             ELSE ScalarLoop(cls, names, return_all, i + 1,
                    [ acc EXCEPT
                        !.invoked = called,
                        !.dict = [ n \in DOMAIN @ \cup {names[i]} |->
                                     IF n = names[i]
                                     THEN [ value |-> n, units |-> m.units ]
                                     ELSE @[n] ] ])

\* only the first name without a method is reported
nonexistant_first(cls, names) ==
    LET all == SelectSeq(names, LAMBDA n : n \notin possibleMethods(cls))
    IN  IF all = <<>> THEN <<>> ELSE <<all[1]>>

\* [entry for entry in scalarNames if 'compute_' + entry not in method_names]
nonexistant_methods(cls, names) ==
    SelectSeq(names, LAMBDA n : n \notin possibleMethods(cls))

\* scalarNames is [none |-> TRUE] for None, [none |-> FALSE, list |-> ...]
\* for a list; the result has none = TRUE when compute_scalars returns None
compute_scalars(cls, scalarNames, return_all) ==
    LET start == [ error |-> "", none |-> FALSE, dict |-> <<>>,
                   invoked |-> <<>>, message |-> <<>> ]
    IN  IF scalarNames.none
        THEN [ start EXCEPT !.none = TRUE ]
        ELSE IF Len(nonexistant_methods(cls, scalarNames.list)) > 0
        THEN [ start EXCEPT !.error = "Exception",
                            !.message = nonexistant_methods(cls, scalarNames.list) ]
        ELSE ScalarLoop(cls, scalarNames.list, return_all, 1, start)

\* names a caller may ask for
RequiredSquatMetrics ==
    { "peak_angle", "ratio_peak_angle", "range_of_motion",
      "trunk_lean_relative_to_ground", "trunk_flexion_relative_to_ground",
      "squat_depth" }

RequestedNames ==
    RequiredSquatMetrics \cup
    { "cadence", "gait_speed", "rom", "correlations", "gait_frame", "scalars",
      "speed" }

InitScalars ==
    /\ pc = "scalars_call"
    /\ call \in [ cls : {"gait_analysis", "squat_analysis"},
                 scalarNames : { [ none |-> TRUE ] } \cup
                               { [ none |-> FALSE, list |-> l ] :
                                   l \in UNION { [1..n -> RequestedNames] : n \in 0..MaxNames } },
                 return_all : BOOLEAN ]
    /\ scalarDict = NoDict
    /\ invoked = <<>>
    /\ message = <<>>
    /\ error = ""
    /\ peaks = NoPeaks
    /\ orderOk = FALSE
    /\ promIdx = 1
    /\ leg = "auto"
    /\ n_gait_cycles = -1
    /\ gaitEvents = NoEvents
    /\ signal = NoSignal
    /\ NoMetricVars
    /\ NoExtraVars

ComputeScalars ==
    /\ pc = "scalars_call"
    /\ \E r \in { compute_scalars(call.cls, call.scalarNames, call.return_all) } :
          /\ error' = r.error
          /\ scalarDict' = [ none |-> r.none, entries |-> r.dict ]
          /\ invoked' = r.invoked
          /\ message' = r.message
          /\ pc' = IF r.error = "" THEN "scalars_returned" ELSE "scalars_raised"
    /\ UNCHANGED <<call, segVars, metricVars, extraVars>>

NextScalars == ComputeScalars

SpecScalars == InitScalars /\ [][NextScalars]_vars

\* ------------------------------------------------ claims: compute_scalars
ScalarsDone == pc \in {"scalars_returned", "scalars_raised"}

GivenList == ~ call.scalarNames.none

\* positions of the requested names that have no calculator
UnknownAt ==
    { i \in 1..Len(call.scalarNames.list) :
        call.scalarNames.list[i] \notin DOMAIN Methods(call.cls) }

\* C6 as stated: a list with a name that has no calculator is refused with
\* an error whose message lists the known metric names; no calculator is
\* invoked and no result mapping is returned
C6_AsStated ==
    ScalarsDone /\ GivenList /\ UnknownAt # {} =>
        /\ pc = "scalars_raised"
        /\ Range(message) = DOMAIN Methods(call.cls)
        /\ invoked = <<>>
        /\ scalarDict = NoDict

\* C6 amended: a list with a name that has no calculator is refused with an
\* error whose message lists, in the order asked, the requested names that
\* have no calculator; no calculator is invoked and no result mapping is
\* returned
C6_UnknownNamesListed ==
    ScalarsDone /\ GivenList /\ UnknownAt # {} =>
        /\ pc = "scalars_raised"
        /\ error = "Exception"
        /\ Len(message) = Cardinality(UnknownAt)
        /\ \A k \in 1..Len(message) :
              message[k] = call.scalarNames.list[SortedSeq(UnknownAt)[k]]
        /\ invoked = <<>>
        /\ scalarDict = NoDict

\* a computable name followed by a name without calculator
C6_Witness ==
    /\ pc = "scalars_raised"
    /\ GivenList
    /\ Len(call.scalarNames.list) = 2
    /\ call.scalarNames.list[1] = "cadence"
    /\ call.cls = "gait_analysis"
    /\ UnknownAt = {2}
    /\ message = <<call.scalarNames.list[2]>>

\* C7: for every name n that passes the name validation, compute_scalars([n])
\* succeeds and returns an entry for n holding a value and its units
C7_AcceptedNameComputable ==
    ( /\ ScalarsDone /\ GivenList
      /\ Len(call.scalarNames.list) = 1
      /\ UnknownAt = {} ) =>
        /\ pc = "scalars_returned"
        /\ call.scalarNames.list[1] \in DOMAIN scalarDict.entries
        /\ scalarDict.entries[call.scalarNames.list[1]].units

\* C8: the six required squat metric names pass the name validation of
\* squat_analysis.compute_scalars
C8_RequiredSquatRegistered ==
    ( /\ ScalarsDone /\ GivenList
      /\ call.cls = "squat_analysis"
      /\ Range(call.scalarNames.list) \subseteq RequiredSquatMetrics ) =>
        message = <<>> /\ error # "Exception"


\* ------------------------------------------------- floating-point values
\* a float is a ratio n/d with d > 0, or nan, or an infinity of sign n
Fin(n, d) == [ k |-> "fin", n |-> n, d |-> d ]
NaN       == [ k |-> "nan", n |-> 0, d |-> 1 ]
Inf(sgn)  == [ k |-> "inf", n |-> sgn, d |-> 1 ]

Sign(x) == IF x > 0 THEN 1 ELSE IF x < 0 THEN -1 ELSE 0
Abs(x)  == IF x < 0 THEN -x ELSE x

\* a / b on float arrays: no exception, nan for 0/0 and an infinity for x/0
Divide(a, b) ==
    IF b = 0
    THEN IF a = 0 THEN NaN ELSE Inf(Sign(a))
    ELSE Fin(a * Sign(b), Abs(b))

\* x * c, c an integer
Times(x, c) ==
    IF x.k = "fin" THEN Fin(x.n * c, x.d)
    ELSE IF x.k = "inf" /\ c # 0 THEN Inf(x.n * Sign(c))
    ELSE NaN

Plus(x, y) ==
    IF x.k = "nan" \/ y.k = "nan" THEN NaN
    ELSE IF x.k = "inf" /\ y.k = "inf" THEN IF x.n = y.n THEN x ELSE NaN
    ELSE IF x.k = "inf" THEN x
    ELSE IF y.k = "inf" THEN y
    ELSE Fin(x.n * y.d + y.n * x.d, x.d * y.d)

\* x / c, c a positive integer
Over(x, c) == IF x.k = "fin" THEN Fin(x.n, x.d * c) ELSE x

\* x == y on floats: nan equals nothing
Same(x, y) ==
    IF x.k = "fin" /\ y.k = "fin" THEN x.n * y.d = y.n * x.d
    ELSE x.k = "inf" /\ y.k = "inf" /\ x.n = y.n

RECURSIVE np_sum(_)
np_sum(a) == IF a = <<>> THEN Fin(0, 1) ELSE Plus(a[1], np_sum(Tail(a)))

np_mean(a) == IF a = <<>> THEN NaN ELSE Over(np_sum(a), Len(a))

\* --------------------------------------------------------- gait metrics
MaxDt == 2

MaxPos == 1

MaxSpeed == 1

Frames == 0..(MaxEvents - 1)

nGaitCycles == Len(gaitEvents.ipsilateralIdx)

\* gaitEvents['ipsilateralTime'][i, c] and gaitEvents['contralateralTime'][i, c]
ipsilateralTime(i, c)   == time[gaitEvents.ipsilateralIdx[i][c]]
contralateralTime(i, c) == time[gaitEvents.contralateralIdx[i][c]]

\* the ipsilateral leg taken for the right one whatever the event set says
get_leg_right == <<"r", "L">>

get_leg == IF gaitEvents.ipsilateralLeg = "r" THEN <<"r", "L">> ELSE <<"L", "r">>

lower(name) == IF name = "L" THEN "l" ELSE name

\* the double support taken relative to the ipsilateral swing
doubleSupportTimesOverSwing ==
    [ i \in 1..nGaitCycles |->
        Times(Divide((ipsilateralTime(i, 2) - ipsilateralTime(i, 1)) -
                     (contralateralTime(i, 2) - contralateralTime(i, 1)),
                     ipsilateralTime(i, 3) - ipsilateralTime(i, 2)), 100) ]

doubleSupportTimes ==
    [ i \in 1..nGaitCycles |->
        Times(Divide((ipsilateralTime(i, 2) - ipsilateralTime(i, 1)) -
                     (contralateralTime(i, 2) - contralateralTime(i, 1)),
                     ipsilateralTime(i, 3) - ipsilateralTime(i, 1)), 100) ]

compute_double_support_time(return_all) ==
    [ value |-> IF return_all THEN doubleSupportTimes ELSE np_mean(doubleSupportTimes),
      units |-> "%" ]

\* the single support taken as a fraction of the cycle
single_support_as_fraction(return_all) ==
    LET double_support_time == compute_double_support_time(TRUE).value
        singleSupportTimes  == [ i \in 1..Len(double_support_time) |->
                                   Plus(Fin(1, 1), Times(double_support_time[i], -1)) ]
    IN  [ value |-> IF return_all THEN singleSupportTimes ELSE np_mean(singleSupportTimes),
          units |-> "%" ]

compute_single_support_time(return_all) ==
    LET double_support_time == compute_double_support_time(TRUE).value
        singleSupportTimes  == [ i \in 1..Len(double_support_time) |->
                                   Plus(Fin(100, 1), Times(double_support_time[i], -1)) ]
    IN  [ value |-> IF return_all THEN singleSupportTimes ELSE np_mean(singleSupportTimes),
          units |-> "%" ]

\* the per-cycle step lengths of compute_step_length, keyed 'r' and 'l'
\* the contralateral step measured to the contralateral toe-off
step_lengths_to_toe_off ==
    LET lg      == get_leg[1]
        contLeg == get_leg[2]
        ofCont  == [ i \in 1..nGaitCycles |->
                       - calcX[lg][gaitEvents.ipsilateralIdx[i][1]]
                       + calcX[contLeg][gaitEvents.contralateralIdx[i][2]]
                       + treadmillSpeed *
                           (contralateralTime(i, 1) - ipsilateralTime(i, 1)) ]
        ofIps   == [ i \in 1..nGaitCycles |->
                       calcX[lg][gaitEvents.ipsilateralIdx[i][3]]
                       - calcX[contLeg][gaitEvents.contralateralIdx[i][2]]
                       + treadmillSpeed *
                           (- contralateralTime(i, 2) + ipsilateralTime(i, 3)) ]
    IN  [ key \in {lower(contLeg), lower(lg)} |->
            IF key = lower(lg) THEN ofIps ELSE ofCont ]

step_lengths ==
    LET lg      == get_leg[1]
        contLeg == get_leg[2]
        ofCont  == [ i \in 1..nGaitCycles |->
                       - calcX[lg][gaitEvents.ipsilateralIdx[i][1]]
                       + calcX[contLeg][gaitEvents.contralateralIdx[i][2]]
                       + treadmillSpeed *
                           (contralateralTime(i, 2) - ipsilateralTime(i, 1)) ]
        ofIps   == [ i \in 1..nGaitCycles |->
                       calcX[lg][gaitEvents.ipsilateralIdx[i][3]]
                       - calcX[contLeg][gaitEvents.contralateralIdx[i][2]]
                       + treadmillSpeed *
                           (- contralateralTime(i, 2) + ipsilateralTime(i, 3)) ]
    IN  [ key \in {lower(contLeg), lower(lg)} |->
            IF key = lower(lg) THEN ofIps ELSE ofCont ]

compute_step_length_symmetry(return_all) ==
    LET step_length_symmetry_all ==
            [ i \in 1..nGaitCycles |->
                Times(Divide(step_lengths["r"][i], step_lengths["l"][i]), 100) ]
    IN  [ value |-> IF return_all THEN step_length_symmetry_all
                    ELSE np_mean(step_length_symmetry_all),
          units |-> "% (R/L)" ]

Returned(return_all, r) ==
    [ called |-> TRUE, return_all |-> return_all, value |-> r.value, units |-> r.units ]

\* the object after gait_analysis.__init__ of a trial whose events are all
\* detected at the first prominence
InitGait ==
    /\ pc = "constructed"
    /\ error = ""
    /\ signal \in { g \in WalkingSignals : g.missed = <<0, 0, 0>> }
    /\ leg \in {"auto", "r", "l"}
    /\ n_gait_cycles = -1
    /\ promIdx = 1
    /\ peaks = detect_gait_peaks(signal, promIdx)
    /\ orderOk = detect_correct_order(peaks.rHS, peaks.rTO, peaks.lHS, peaks.lTO)
    /\ orderOk
    /\ \E r \in { SegmentCycles(peaks, leg, n_gait_cycles) } :
          r.error = "" /\ gaitEvents = r.events
    /\ \E dt \in 1..MaxDt : time = [ f \in Frames |-> dt * f ]
    /\ NoScalarVars
    /\ doubleSupport = NoReturn
    /\ singleSupport = NoReturn
    /\ symmetry = NoReturn

\* a trial overground whose calcaneus markers are read as 0
InitSupport ==
    /\ InitGait
    /\ NoExtraVars
    /\ treadmillSpeed = 0
    /\ calcX = [ m \in {"r", "L"} |-> [ f \in Frames |-> 0 ] ]

ComputeDoubleSupportTime ==
    /\ pc = "constructed"
    /\ \E return_all \in BOOLEAN :
          doubleSupport' = Returned(return_all, compute_double_support_time(return_all))
    /\ UNCHANGED <<pc, error, segVars, scalarVars, extraVars, time, treadmillSpeed, calcX,
                   singleSupport, symmetry>>

ComputeSingleSupportTime ==
    /\ pc = "constructed"
    /\ \E return_all \in BOOLEAN :
          singleSupport' = Returned(return_all, compute_single_support_time(return_all))
    /\ UNCHANGED <<pc, error, segVars, scalarVars, extraVars, time, treadmillSpeed, calcX,
                   doubleSupport, symmetry>>

NextSupport == ComputeDoubleSupportTime \/ ComputeSingleSupportTime

SpecSupport == InitSupport /\ [][NextSupport]_vars

\* the calcaneus positions are free at the heel-strikes of their foot, the
\* only frames compute_step_length reads them at
InitSymmetry ==
    /\ InitGait
    /\ NoExtraVars
    /\ treadmillSpeed \in 0..MaxSpeed
    /\ \E xr \in [ Range(peaks.rHS) -> 0..MaxPos ], xl \in [ Range(peaks.lHS) -> 0..MaxPos ] :
          calcX = [ m \in {"r", "L"} |->
                      [ f \in Frames |->
                          IF m = "r" /\ f \in DOMAIN xr THEN xr[f]
                          ELSE IF m = "L" /\ f \in DOMAIN xl THEN xl[f]
                          ELSE 0 ] ]

ComputeStepLengthSymmetry ==
    /\ pc = "constructed"
    /\ \E return_all \in BOOLEAN :
          symmetry' = Returned(return_all, compute_step_length_symmetry(return_all))
    /\ UNCHANGED <<pc, error, segVars, scalarVars, extraVars, time, treadmillSpeed, calcX,
                   doubleSupport, singleSupport>>

NextSymmetry == ComputeStepLengthSymmetry

SpecSymmetry == InitSymmetry /\ [][NextSymmetry]_vars


\* ------------------------------------------------ claims: support times
Hundred == Fin(100, 1)

\* C9: for every cycle of the event set the per-cycle double support time
\* plus the per-cycle single support time is 100 (both calculators called
\* with return_all=True), and the means they return otherwise sum to 100.
C9_SupportSumsTo100 ==
    ( /\ doubleSupport.called
      /\ singleSupport.called
      /\ doubleSupport.return_all = singleSupport.return_all ) =>
        IF doubleSupport.return_all
        THEN /\ Len(doubleSupport.value) = nGaitCycles
             /\ Len(singleSupport.value) = nGaitCycles
             /\ \A i \in 1..nGaitCycles :
                   Same(Plus(doubleSupport.value[i], singleSupport.value[i]), Hundred)
        ELSE Same(Plus(doubleSupport.value, singleSupport.value), Hundred)

\* both per-cycle arrays returned for two cycles of different double support
C9_Witness ==
    /\ doubleSupport.called /\ doubleSupport.return_all
    /\ singleSupport.called /\ singleSupport.return_all
    /\ nGaitCycles = 2
    /\ ~ Same(doubleSupport.value[1], doubleSupport.value[2])
    /\ \A i \in 1..2 : ~ Same(doubleSupport.value[i], Fin(0, 1))

\* ---------------------------------------------- claims: step symmetry
\* the step that ends with the heel-strike of foot m in cycle i: from the
\* calcaneus of the other foot at its preceding heel-strike to the calcaneus
\* of m, plus the distance the belt travelled meanwhile
OtherFoot(m) == IF m = "r" THEN "L" ELSE "r"

StepOf(m, i) ==
    LET ips  == gaitEvents.ipsilateralLeg = lower(m)
        from == IF ips THEN gaitEvents.contralateralIdx[i][2]
                       ELSE gaitEvents.ipsilateralIdx[i][1]
        to   == IF ips THEN gaitEvents.ipsilateralIdx[i][3]
                       ELSE gaitEvents.contralateralIdx[i][2]
    IN  calcX[m][to] - calcX[OtherFoot(m)][from] + treadmillSpeed * (time[to] - time[from])

RightOverLeft(i) == Times(Divide(StepOf("r", i), StepOf("L", i)), 100)

\* the value returned for cycle i is 100 x right / left
IsRightOverLeft(i) ==
    IF RightOverLeft(i).k = "fin"
    THEN Same(symmetry.value[i], RightOverLeft(i))
    ELSE symmetry.value[i] = RightOverLeft(i)

\* C10 as stated: compute_step_length_symmetry returns for every cycle
\* 100 x (right step length / left step length) whichever leg is ipsilateral,
\* and exactly 100 in every cycle where the two step lengths are equal.
C10_AsStated ==
    (symmetry.called /\ symmetry.return_all) =>
        /\ Len(symmetry.value) = nGaitCycles
        /\ \A i \in 1..nGaitCycles :
              /\ IsRightOverLeft(i)
              /\ StepOf("r", i) = StepOf("L", i) => Same(symmetry.value[i], Hundred)

\* C10 amended: compute_step_length_symmetry returns for every cycle
\* 100 x (right step length / left step length) whichever leg is ipsilateral,
\* nan where both step lengths are zero, and exactly 100 in every cycle where
\* the two step lengths are equal and not zero.
C10_SymmetryRightOverLeft ==
    (symmetry.called /\ symmetry.return_all) =>
        /\ Len(symmetry.value) = nGaitCycles
        /\ \A i \in 1..nGaitCycles :
              /\ IsRightOverLeft(i)
              /\ (StepOf("r", i) = StepOf("L", i) /\ StepOf("r", i) # 0) =>
                    Same(symmetry.value[i], Hundred)
              /\ (StepOf("r", i) = 0 /\ StepOf("L", i) = 0) => symmetry.value[i] = NaN

\* the left leg ipsilateral, one cycle of equal non-zero steps next to one of
\* unequal steps
C10_Witness ==
    /\ symmetry.called /\ symmetry.return_all
    /\ gaitEvents.ipsilateralLeg = "l"
    /\ nGaitCycles = 2
    /\ \E i, j \in 1..2 :
          /\ StepOf("r", i) = StepOf("L", i) /\ StepOf("r", i) # 0
          /\ Same(symmetry.value[i], Hundred)
          /\ StepOf("r", j) # StepOf("L", j) /\ StepOf("L", j) # 0 /\ StepOf("r", j) # 0


\* ------------------------------------------------ compute_treadmill_speed
MaxStep == 1

\* x < y on floats: false when either is nan
Less(x, y) ==
    IF x.k = "nan" \/ y.k = "nan" THEN FALSE
    ELSE IF x.k = "inf" THEN x.n < 0 /\ ~ (y.k = "inf" /\ y.n < 0)
    ELSE IF y.k = "inf" THEN y.n > 0
    ELSE x.n * y.d < y.n * x.d

\* np.round of n/d, d > 0: to the nearest integer, a half to the even one
np_round(n, d) ==
    LET q == n \div d
        r == n - q * d
    IN  IF 2 * r < d THEN q
        ELSE IF 2 * r > d THEN q + 1
        ELSE IF q % 2 = 0 THEN q ELSE q + 1

\* startIdx and endIdx of cycle i: 10% into and 30% before the end of stance
stanceTimeLength(i) == gaitEvents.ipsilateralIdx[i][2] - gaitEvents.ipsilateralIdx[i][1]
startIdx(i) == np_round(10 * gaitEvents.ipsilateralIdx[i][1] + stanceTimeLength(i), 10)
endIdx(i)   == np_round(10 * gaitEvents.ipsilateralIdx[i][2] - 3 * stanceTimeLength(i), 10)

\* the frames of foot_position[startIdx:endIdx]
SliceFrames(lo, hi) == { f \in Frames : lo <= f /\ f < hi }

\* norm(mean(diff(foot_position[startIdx:endIdx])) / dt) along the belt;
\* the mean of no difference at all is nan
CycleSpeed(i) ==
    LET foot_position == ankleX[get_leg[1]]
        fr == SliceFrames(startIdx(i), endIdx(i))
        dt == time[1] - time[0]
    IN  IF Cardinality(fr) < 2 THEN NaN
        ELSE Divide(Abs(foot_position[SetMax(fr)] - foot_position[SetMax(fr) - Cardinality(fr) + 1]),
                    (Cardinality(fr) - 1) * dt)

treadmillSpeeds == [ i \in 1..nGaitCycles |-> CycleSpeed(i) ]

zeros(n) == [ i \in 1..n |-> Fin(0, 1) ]

\* the threshold test passing at the threshold itself
AtOrBelowThreshold(measured, overground_speed_threshold) ==
    ~ Less(overground_speed_threshold, measured) /\ measured.k # "nan"

BelowThreshold(measured, overground_speed_threshold) ==
    Less(measured, overground_speed_threshold)

compute_treadmill_speed(overground_speed_threshold, gait_style, return_all) ==
    IF gait_style \in {"auto", "treadmill"}
    THEN LET measured   == np_mean(treadmillSpeeds)
             overground == BelowThreshold(measured, overground_speed_threshold)
                           /\ gait_style # "treadmill"
         IN  [ error |-> "",
               value |-> IF return_all
                         THEN IF overground THEN zeros(nGaitCycles) ELSE treadmillSpeeds
                         ELSE IF overground THEN Fin(0, 1) ELSE measured ]
    ELSE IF gait_style = "overground"
    THEN [ error |-> "",
           value |-> IF return_all THEN zeros(nGaitCycles) ELSE Fin(0, 1) ]
    ELSE [ error |-> "UnboundLocalError", value |-> <<>> ]

GaitStyles == {"auto", "treadmill", "overground", "running"}

Thresholds == { Fin(3, 10), Fin(1, 2) }

\* the sum of the moves x[g] made at the frames g before f
Travelled(x, f) ==
    Cardinality({ gk \in (DOMAIN x) \X (1..MaxStep) : gk[1] < f /\ gk[2] <= x[gk[1]] })

\* the ankle markers move between a heel-strike of their foot and the next
\* frame only
InitSpeed ==
    /\ InitGait
    /\ treadmillSpeed = 0
    /\ calcX = [ m \in {"r", "L"} |-> [ f \in Frames |-> 0 ] ]
    /\ \E xr \in [ Range(peaks.rHS) -> 0..MaxStep ], xl \in [ Range(peaks.lHS) -> 0..MaxStep ] :
          ankleX = [ m \in {"r", "L"} |->
                       [ f \in Frames |->
                           IF m = "r" THEN Travelled(xr, f) ELSE Travelled(xl, f) ] ]
    /\ speed = NoSpeedCall
    /\ NoConstructVars
    /\ NoSquatVars
    /\ NoCacheVars

\* the speed returned kept in self.treadmillSpeed
overwritten_treadmillSpeed(stored, returned) == returned

\* compute_treadmill_speed returns the speed and assigns nothing
kept_treadmillSpeed(stored, returned) == stored

ComputeTreadmillSpeed ==
    /\ pc = "constructed"
    /\ \E gait_style \in GaitStyles, thr \in Thresholds, return_all \in BOOLEAN :
       \E r \in { compute_treadmill_speed(thr, gait_style, return_all) } :
          /\ speed' = [ called |-> TRUE, gait_style |-> gait_style, threshold |-> thr,
                        return_all |-> return_all, value |-> r.value ]
          /\ error' = r.error
          /\ treadmillSpeed' = kept_treadmillSpeed(treadmillSpeed, r.value)
    /\ UNCHANGED <<pc, segVars, scalarVars, time, calcX, doubleSupport, singleSupport,
                   symmetry, ankleX, constructVars, squatVars, cacheVars>>

NextSpeed == ComputeTreadmillSpeed

SpecSpeed == InitSpeed /\ [][NextSpeed]_vars


\* --------------------------------------------- claims: treadmill speed
IsZero(x) == x.k = "fin" /\ x.n = 0

AllZeros(a) == \A i \in 1..Len(a) : IsZero(a[i])

\* the mean over the cycles of the stance-foot speeds
MeasuredSpeed == np_mean(treadmillSpeeds)

StrictlyBelow(x, thr) == x.k = "fin" /\ x.n * thr.d < thr.n * x.d

\* what the claim has the call return as a scalar
ClaimedSpeed(gait_style, thr) ==
    IF gait_style = "overground" THEN Fin(0, 1)
    ELSE IF gait_style = "treadmill" THEN MeasuredSpeed
    ELSE IF StrictlyBelow(MeasuredSpeed, thr) THEN Fin(0, 1)
    ELSE MeasuredSpeed

SameOrBothNan(x, y) == Same(x, y) \/ (x.k = "nan" /\ y.k = "nan")

\* C11: compute_treadmill_speed returns 0 for gait_style 'overground', the
\* measured mean stance-foot speed for 'treadmill' whatever its size, and for
\* 'auto' 0 when the measured speed is strictly below the threshold and the
\* measured speed otherwise; with return_all the per-cycle array is all zeros
\* exactly when the scalar result is 0.
C11_TreadmillSpeed ==
    (speed.called /\ speed.gait_style \in {"auto", "treadmill", "overground"}) =>
        /\ error = ""
        /\ IF speed.return_all
           THEN /\ Len(speed.value) = nGaitCycles
                /\ AllZeros(speed.value) <=>
                      IsZero(ClaimedSpeed(speed.gait_style, speed.threshold))
                /\ ~ AllZeros(speed.value) =>
                      \A i \in 1..nGaitCycles :
                          SameOrBothNan(speed.value[i], treadmillSpeeds[i])
           ELSE SameOrBothNan(speed.value, ClaimedSpeed(speed.gait_style, speed.threshold))

\* gait_style 'auto', two cycles whose mean speed is above 0 and strictly
\* below the threshold: the array returned is all zeros
C11_Witness ==
    /\ speed.called /\ speed.gait_style = "auto" /\ speed.return_all
    /\ nGaitCycles = 2
    /\ MeasuredSpeed.k = "fin" /\ MeasuredSpeed.n > 0
    /\ StrictlyBelow(MeasuredSpeed, speed.threshold)
    /\ AllZeros(speed.value)


\* ------------------------------------------------------- segment_squat
\* arrays are functions on 0..(n - 1)
Size(a) == Cardinality(DOMAIN a)

\* a[lo:hi] with 0 <= lo, re-indexed from 0
Slice(a, lo, hi) ==
    LET h == IF hi > Size(a) THEN Size(a) ELSE hi
    IN  [ i \in 0..(h - lo - 1) |-> a[lo + i] ]

SetMin(S) == CHOOSE x \in S : \A y \in S : x <= y

ValuesOf(a) == { a[i] : i \in DOMAIN a }

\* the first position of the smallest value
np_argmin(a) == SetMin({ i \in DOMAIN a : a[i] = SetMin(ValuesOf(a)) })

\* np.argmax: the first position of the largest value
np_argmax(a) == SetMin({ i \in DOMAIN a : a[i] = SetMax(ValuesOf(a)) })

\* height_value=0.2, in the unit of pelvis_ty (0.1 m)
height_value == 2

\* find_peaks(x, distance, height): the middle of every plateau that is
\* higher than both its neighbours and at least `height` high; with a
\* sampling period of 0.5 s distance=.7/dt is below 2 frames and drops none
find_peaks(x, height) ==
    LET n == Size(x)
        IsPlateau(l, r) ==
            /\ l >= 1 /\ r <= n - 2 /\ l <= r
            /\ \A j \in l..r : x[j] = x[l]
            /\ x[l - 1] < x[l] /\ x[r + 1] < x[r]
    IN  SortedSeq({ m \in 0..(n - 1) :
                      \E l \in 0..(n - 1), r \in 0..(n - 1) :
                          IsPlateau(l, r) /\ m = (l + r) \div 2 /\ x[m] >= height })

\* the loop with every start searched from the first frame of the trial
RECURSIVE StartEndLoopFromZero(_, _, _, _)
StartEndLoopFromZero(pelvSignalPos, idxMinPelvTy, i, minIdxOld) ==
    IF i > Len(idxMinPelvTy) THEN <<>>
    ELSE LET minIdx  == idxMinPelvTy[i]
             nextIdx == IF i < Len(idxMinPelvTy) THEN idxMinPelvTy[i + 1]
                        ELSE Size(pelvSignalPos)
             startI  == np_argmax(Slice(pelvSignalPos, 0, minIdx))
             endI    == np_argmax(Slice(pelvSignalPos, minIdx, nextIdx)) + minIdx
         IN  <<<<startI, endI>>>> \o
             StartEndLoopFromZero(pelvSignalPos, idxMinPelvTy, i + 1, minIdx)

\* the loop over idxMinPelvTy: the highest pelvis position before and after
\* every minimum
RECURSIVE StartEndLoop(_, _, _, _)
StartEndLoop(pelvSignalPos, idxMinPelvTy, i, minIdxOld) ==
    IF i > Len(idxMinPelvTy) THEN <<>>
    ELSE LET minIdx  == idxMinPelvTy[i]
             nextIdx == IF i < Len(idxMinPelvTy) THEN idxMinPelvTy[i + 1]
                        ELSE Size(pelvSignalPos)
             startI  == np_argmax(Slice(pelvSignalPos, minIdxOld, minIdx)) + minIdxOld
             endI    == np_argmax(Slice(pelvSignalPos, minIdx, nextIdx)) + minIdx
         IN  <<<<startI, endI>>>> \o StartEndLoop(pelvSignalPos, idxMinPelvTy, i + 1, minIdx)

\* a[-n:] of a list
LastOf(a, n) ==
    IF n = 0 \/ n >= Len(a) THEN a
    ELSE IF n > 0 THEN SubSeq(a, Len(a) - n + 1, Len(a))
    ELSE SubSeq(a, IF -n >= Len(a) THEN Len(a) + 1 ELSE 1 - n, Len(a))

\* a[-n:] taken for the last n entries even when n is 0
LastOfExact(a, n) ==
    IF n >= Len(a) THEN a
    ELSE IF n >= 0 THEN SubSeq(a, Len(a) - n + 1, Len(a))
    ELSE SubSeq(a, IF -n >= Len(a) THEN Len(a) + 1 ELSE 1 - n, Len(a))

NoSquatEvents == [ eventIdxs |-> <<>>, eventTimes |-> <<>> ]

\* self.time as it is when __init__ calls segment_squat: what the kinematics
\* base class left there, the time vector of the whole trial or nothing
NoTime == [ set |-> FALSE, t |-> <<>> ]

\* segment_squat on the trimmed pelvis_ty
segment_squat(pelvis, self_time, n_reps) ==
    IF ~ self_time.set
    THEN [ error |-> "AttributeError", events |-> NoSquatEvents ]
    ELSE IF Size(pelvis) = 0
    THEN [ error |-> "ValueError", events |-> NoSquatEvents ]
    ELSE
    LET lowest        == SetMin(ValuesOf(pelvis))
        highest       == SetMax(ValuesOf(pelvis))
        pelvSignal    == [ f \in DOMAIN pelvis |-> highest - pelvis[f] ]
        pelvSignalPos == [ f \in DOMAIN pelvis |-> pelvis[f] - lowest ]
        idxMinPelvTy  == find_peaks(pelvSignal, height_value)
        all           == StartEndLoop(pelvSignalPos, idxMinPelvTy, 1, 0)
        startEndIdxs  == IF n_reps # -1 THEN LastOf(all, n_reps) ELSE all
    IN  IF startEndIdxs = <<>>
        THEN \* self.time[np.array([])]: an empty array of floats is no index
             [ error |-> "IndexError", events |-> NoSquatEvents ]
        ELSE IF \E k \in 1..Len(startEndIdxs) : \E c \in 1..2 :
                    startEndIdxs[k][c] >= Size(self_time.t)
        THEN [ error |-> "IndexError", events |-> NoSquatEvents ]
        ELSE [ error |-> "",
               events |-> [ eventIdxs  |-> startEndIdxs,
                            eventTimes |-> [ k \in 1..Len(startEndIdxs) |->
                                               <<self_time.t[startEndIdxs[k][1]],
                                                 self_time.t[startEndIdxs[k][2]]>> ] ] ]


\* ------------------------------------------------------------ __init__
TrialFrames == 5

MaxHeight == 2

MaxSkew == 2

MaxReps == 3

\* the sampling period of the trials, in ms
SamplePeriod == 500

\* atol=.001 of np.allclose, in ms
atol == 1

np_allclose(a, b) == \A f \in DOMAIN a : Abs(a[f] - b[f]) <= atol

\* idx_trim_start and idx_trim_end; -1 where np.where(...)[0] is empty
idx_trim_start(t, ts) ==
    IF ts > 0
    THEN LET at == { f \in DOMAIN t : t[f] - ts <= 0 }
         IN  IF at = {} THEN -1 ELSE SetMax(at)
    ELSE 0

idx_trim_end(t, te) ==
    IF te > 0
    THEN LET at == { f \in DOMAIN t : t[f] <= t[Size(t) - 1] - te }
         IN  IF at = {} THEN -1 ELSE SetMax(at) + 1
    ELSE Size(t)

\* the whole of segment_walking: the prominences in turn, then the cycles
RECURSIVE segment_walking(_, _, _, _)
segment_walking(g, legArg, nArg, i) ==
    LET pk == detect_gait_peaks(g, i)
    IN  IF detect_correct_order(pk.rHS, pk.rTO, pk.lHS, pk.lTO)
        THEN [ promIdx |-> i, ok |-> TRUE ] @@ SegmentCycles(pk, legArg, nArg)
        ELSE IF i = Len(prominences)
        THEN [ promIdx |-> i, ok |-> FALSE,
               error |-> "ValueError: The ordering of gait events is not correct. Consider trimming your trial using the trimming_start and trimming_end options.",
               events |-> NoEvents ]
        ELSE segment_walking(g, legArg, nArg, i + 1)

InitConstruct ==
    /\ pc = "loaded"
    /\ error = ""
    /\ klass \in {"gait_analysis", "squat_analysis"}
    /\ leg = "auto"
    /\ n_gait_cycles = -1
    /\ IF klass = "squat_analysis"
       THEN /\ signal = NoSignal
            /\ pelvis_ty \in [ 0..(TrialFrames - 1) -> 0..MaxHeight ]
            /\ n_repetitions \in -1..MaxReps
       ELSE /\ signal \in { g \in WalkingSignals :
                              /\ g.K = {} /\ g.missed = <<0, 0, 0>>
                              /\ g.n \in TrialFrames..(TrialFrames + 1) }
            /\ pelvis_ty = [ f \in 0..(signal.n - 1) |-> 0 ]
            /\ n_repetitions = -1
    /\ time = [ f \in DOMAIN pelvis_ty |-> SamplePeriod * f ]
    /\ \E d \in 0..MaxSkew : coordTime = [ f \in DOMAIN time |-> time[f] + d ]
    /\ trimming_start \in {0, SamplePeriod}
    /\ trimming_end \in {0, SamplePeriod}
    /\ selfTime \in { NoTime, [ set |-> TRUE, t |-> coordTime ] }
    /\ ankleX = [ m \in {"r", "L"} |-> [ f \in DOMAIN time |-> 0 ] ]
    /\ calcX = <<>>
    /\ treadmillSpeed = 0
    /\ peaks = NoPeaks
    /\ orderOk = FALSE
    /\ promIdx = 1
    /\ gaitEvents = NoEvents
    /\ squatEvents = NoSquatEvents
    /\ segmentCalls = 0
    /\ doubleSupport = NoReturn
    /\ singleSupport = NoReturn
    /\ symmetry = NoReturn
    /\ speed = NoSpeedCall
    /\ NoScalarVars
    /\ NoSquatVars
    /\ NoCacheVars

\* squat_analysis only: the time vectors of markers and coordinates agree
CheckTimeVectors ==
    /\ pc = "loaded"
    /\ klass = "squat_analysis"
    /\ IF ~ np_allclose(time, coordTime)
       THEN /\ pc' = "raised"
            /\ error' = "Exception: Time vectors of marker and coordinate data are not the same."
       ELSE /\ pc' = "checked"
            /\ UNCHANGED error
    /\ UNCHANGED <<segVars, scalarVars, metricVars, extraVars>>

\* the two trimming blocks of __init__
Trim ==
    /\ pc = IF klass = "squat_analysis" THEN "checked" ELSE "loaded"
    /\ \E lo \in { idx_trim_start(time, trimming_start) } :
          IF lo = -1
          THEN /\ pc' = "raised"
               /\ error' = "IndexError"
               /\ UNCHANGED <<time, coordTime, pelvis_ty, ankleX, signal>>
          ELSE \E hi \in { idx_trim_end(Slice(time, lo, Size(time)), trimming_end) } :
                  IF hi = -1
                  THEN /\ pc' = "raised"
                       /\ error' = "IndexError"
                       /\ UNCHANGED <<time, coordTime, pelvis_ty, ankleX, signal>>
                  ELSE /\ pc' = "trimmed"
                       /\ UNCHANGED error
                       /\ time' = Slice(Slice(time, lo, Size(time)), 0, hi)
                       /\ coordTime' = Slice(Slice(coordTime, lo, Size(time)), 0, hi)
                       /\ pelvis_ty' = Slice(Slice(pelvis_ty, lo, Size(time)), 0, hi)
                       /\ ankleX' = [ m \in DOMAIN ankleX |->
                                        Slice(Slice(ankleX[m], lo, Size(time)), 0, hi) ]
                       /\ signal' = IF klass = "squat_analysis" THEN signal
                                    ELSE [ signal EXCEPT !.s = ((signal.s - 1 + lo) % 4) + 1,
                                                         !.n = hi ]
    /\ UNCHANGED <<peaks, orderOk, promIdx, leg, n_gait_cycles, gaitEvents, scalarVars,
                   treadmillSpeed, calcX, doubleSupport, singleSupport, symmetry, speed,
                   klass, trimming_start, trimming_end, n_repetitions, selfTime,
                   squatEvents, segmentCalls, squatVars, cacheVars>>

\* self.segment_walking(...) / self.segment_squat(...)
SegmentTrial ==
    /\ pc = "trimmed"
    /\ segmentCalls' = segmentCalls + 1
    /\ IF klass = "squat_analysis"
       THEN \E r \in { segment_squat(pelvis_ty, selfTime, n_repetitions) } :
               /\ error' = r.error
               /\ squatEvents' = r.events
               /\ nRepetitions' = Len(r.events.eventIdxs)
               /\ pc' = IF r.error = "" THEN "segmented" ELSE "raised"
               /\ UNCHANGED <<peaks, orderOk, promIdx, gaitEvents>>
       ELSE \E r \in { segment_walking(signal, leg, n_gait_cycles, 1) } :
               /\ error' = r.error
               /\ gaitEvents' = r.events
               /\ promIdx' = r.promIdx
               /\ orderOk' = r.ok
               /\ peaks' = detect_gait_peaks(signal, r.promIdx)
               /\ pc' = IF r.error = "" THEN "segmented" ELSE "raised"
               /\ UNCHANGED <<squatEvents, nRepetitions>>
    /\ UNCHANGED <<leg, n_gait_cycles, signal, scalarVars, metricVars, speedVars,
                   klass, coordTime, pelvis_ty, trimming_start, trimming_end,
                   n_repetitions, selfTime, coordinateValues, ratio, cacheVars>>

\* the rest of __init__
Finish ==
    /\ pc = "segmented"
    /\ pc' = "constructed"
    /\ IF klass = "squat_analysis"
       THEN /\ selfTime' = [ set |-> TRUE, t |-> coordTime ]
            /\ UNCHANGED treadmillSpeed
       ELSE /\ treadmillSpeed' = compute_treadmill_speed(Fin(3, 10), "auto", FALSE).value
            /\ UNCHANGED selfTime
    /\ UNCHANGED <<error, segVars, scalarVars, time, calcX, doubleSupport, singleSupport,
                   symmetry, speedVars, klass, coordTime, pelvis_ty, trimming_start,
                   trimming_end, n_repetitions, squatEvents, segmentCalls, squatVars,
                   cacheVars>>

NextConstruct == CheckTimeVectors \/ Trim \/ SegmentTrial \/ Finish

SpecConstruct == InitConstruct /\ [][NextConstruct]_vars


\* ------------------------------------------------ claims: construction
\* the marker and coordinate time vectors differ by more than 1 ms somewhere
TimeVectorsDiffer == \E f \in DOMAIN time : Abs(time[f] - coordTime[f]) > atol

\* C12: constructing a gait_analysis or squat_analysis object whose marker
\* and coordinate time vectors differ by more than 1 ms at some frame fails
\* before segmentation: segment_walking / segment_squat is never called.
C12_TimeBaseChecked ==
    TimeVectorsDiffer => segmentCalls = 0


\* C13: every event time stored in an event set equals the stored (trimmed)
\* time vector of the object read at the stored event index, for every
\* trimming_start and trimming_end; stated on the squat object, whose
\* eventTimes are kept apart from its time vector.
C13_EventTimesFromStoredVector ==
    (pc = "constructed" /\ klass = "squat_analysis") =>
        \A k \in 1..Len(squatEvents.eventIdxs) : \A c \in 1..2 :
            squatEvents.eventTimes[k][c] = selfTime.t[squatEvents.eventIdxs[k][c]]


\* ------------------------------------------- claims: squat segmentation
\* the repetitions detected in the trimmed trial, in trial order
DetectedRepetitions ==
    LET lowest  == SetMin(ValuesOf(pelvis_ty))
        highest == SetMax(ValuesOf(pelvis_ty))
    IN  StartEndLoop([ f \in DOMAIN pelvis_ty |-> pelvis_ty[f] - lowest ],
                     find_peaks([ f \in DOMAIN pelvis_ty |-> highest - pelvis_ty[f] ],
                                height_value),
                     1, 0)

SquatSegmented == klass = "squat_analysis" /\ pc \in {"segmented", "constructed"}

Smaller(a, b) == IF a < b THEN a ELSE b

\* C14: segment_squat asked for N repetitions, N other than -1, returns
\* exactly min(N, detected) repetitions, the last ones in trial order, for
\* every N >= 0 (N = 0 and N above the detected count included).
C14_LastNRepetitions ==
    (SquatSegmented /\ n_repetitions >= 0) =>
        LET all  == DetectedRepetitions
            kept == Smaller(n_repetitions, Len(all))
        IN  /\ Len(squatEvents.eventIdxs) = kept
            /\ \A k \in 1..kept :
                  squatEvents.eventIdxs[k] = all[Len(all) - kept + k]

\* the errors the segmentation code raises on purpose
SegmentationErrors ==
    { "Exception: Not enough gait cycles found.",
      "Exception: No good steps for leg.",
      "ValueError: The ordering of gait events is not correct. Consider trimming your trial using the trimming_start and trimming_end options." }

\* C15: construction of squat_analysis raises a segmentation error whenever
\* no pelvis-height minimum is detected, and an empty repetition event set
\* is never returned.
C15_NoRepetitionFails ==
    /\ ( /\ klass = "squat_analysis"
         /\ segmentCalls = 1
         /\ DetectedRepetitions = <<>> ) =>
            pc = "raised" /\ error \in SegmentationErrors
    /\ SquatSegmented => squatEvents.eventIdxs # <<>>


\* ------------------------------------------------ squat: peak angles
MaxAngle == 1

Mul(x, y) ==
    IF x.k = "nan" \/ y.k = "nan" THEN NaN
    ELSE IF x.k = "fin" /\ y.k = "fin" THEN Fin(x.n * y.n, x.d * y.d)
    ELSE IF Sign(x.n) * Sign(y.n) = 0 THEN NaN
    ELSE Inf(Sign(x.n) * Sign(y.n))

\* np.std, kept as the variance it is the square root of
np_std(a) ==
    LET m == np_mean(a)
    IN  [ sqrt_of |-> np_mean([ i \in 1..Len(a) |->
                                  Mul(Plus(a[i], Times(m, -1)), Plus(a[i], Times(m, -1))) ]) ]

\* the values of a column over rep_range[0]:rep_range[1]+1
RepValues(coordinate, rep_range) ==
    ValuesOf(Slice(coordinateValues[coordinate], rep_range[1], rep_range[2] + 1))

NoPeakAngle == [ error |-> "", value |-> <<>>, std |-> <<>>, units |-> "" ]

\* squat_analysis.compute_peak_angle
squat_compute_peak_angle(coordinate, peak_type, return_all) ==
    IF coordinate \notin DOMAIN coordinateValues
    THEN [ NoPeakAngle EXCEPT !.error = "Exception: coordinate does not exist in coordinate values." ]
    ELSE IF nRepetitions > 0 /\ peak_type \notin {"maximum", "minimum"}
    THEN [ NoPeakAngle EXCEPT !.error = "Exception: peak_type must be maximum or minimum." ]
    ELSE
    LET peak_angles == [ i \in 1..nRepetitions |->
                           IF peak_type = "maximum"
                           THEN Fin(SetMax(RepValues(coordinate, squatEvents.eventIdxs[i])), 1)
                           ELSE Fin(SetMin(RepValues(coordinate, squatEvents.eventIdxs[i])), 1) ]
    IN  IF return_all
        THEN [ error |-> "", value |-> peak_angles, std |-> <<>>, units |-> "deg" ]
        ELSE [ error |-> "", value |-> np_mean(peak_angles), std |-> np_std(peak_angles),
               units |-> "deg" ]

units_differ(units_a, units_b) == units_a # units_b

\* squat_analysis.compute_ratio_peak_angle
compute_ratio_peak_angle(coordinate_a, coordinate_b, peak_type, return_all) ==
    LET a == squat_compute_peak_angle(coordinate_a, peak_type, TRUE)
        b == squat_compute_peak_angle(coordinate_b, peak_type, TRUE)
        ratio_angles == [ i \in 1..nRepetitions |->
                            Times(Divide(a.value[i].n, b.value[i].n), 100) ]
    IN  IF a.error # "" THEN a
        ELSE IF b.error # "" THEN b
        ELSE IF units_differ(a.units, b.units)
        THEN [ NoPeakAngle EXCEPT !.error = "Exception: Units of the two coordinates are not the same." ]
        ELSE IF return_all
        THEN [ error |-> "", value |-> ratio_angles, std |-> <<>>, units |-> "%" ]
        ELSE [ error |-> "", value |-> np_mean(ratio_angles), std |-> np_std(ratio_angles),
               units |-> "%" ]

\* the squat object after __init__ of an untrimmed trial that starts and
\* ends standing
InitSquat ==
    /\ pc = "constructed"
    /\ error = ""
    /\ klass = "squat_analysis"
    /\ time = [ f \in 0..(TrialFrames - 1) |-> SamplePeriod * f ]
    /\ coordTime = time
    /\ selfTime = [ set |-> TRUE, t |-> coordTime ]
    /\ trimming_start = 0
    /\ trimming_end = 0
    /\ n_repetitions = -1
    /\ segmentCalls = 1
    /\ pelvis_ty \in { p \in [ 0..(TrialFrames - 1) -> 0..MaxHeight ] :
                         p[0] = MaxHeight /\ p[TrialFrames - 1] = MaxHeight }
    /\ \E r \in { segment_squat(pelvis_ty, selfTime, n_repetitions) } :
          /\ r.error = ""
          /\ squatEvents = r.events
          /\ nRepetitions = Len(r.events.eventIdxs)
    /\ \E knee \in { a \in [ 0..(TrialFrames - 1) -> 0..MaxAngle ] :
                        a[0] = 0 /\ a[TrialFrames - 1] = 0 } :
          coordinateValues = [ c \in {"pelvis_ty", "knee_angle_r"} |->
                                 IF c = "pelvis_ty" THEN pelvis_ty ELSE knee ]
    /\ ratio = NoRatioCall
    /\ peaks = NoPeaks
    /\ orderOk = FALSE
    /\ promIdx = 1
    /\ leg = "auto"
    /\ n_gait_cycles = -1
    /\ gaitEvents = NoEvents
    /\ signal = NoSignal
    /\ treadmillSpeed = 0
    /\ calcX = <<>>
    /\ doubleSupport = NoReturn
    /\ singleSupport = NoReturn
    /\ symmetry = NoReturn
    /\ NoScalarVars
    /\ NoSpeedVars
    /\ NoCacheVars

CoordinateNames == {"pelvis_ty", "knee_angle_r", "knee_angle"}

ComputeRatioPeakAngle ==
    /\ pc = "constructed"
    /\ \E coordinate_a \in CoordinateNames, coordinate_b \in CoordinateNames,
          peak_type \in {"maximum", "minimum", "mean"}, return_all \in BOOLEAN :
       \E r \in { compute_ratio_peak_angle(coordinate_a, coordinate_b, peak_type, return_all) } :
          /\ error' = r.error
          /\ ratio' = [ called |-> TRUE, coordinate_a |-> coordinate_a,
                        coordinate_b |-> coordinate_b, peak_type |-> peak_type,
                        return_all |-> return_all,
                        value |-> r.value, std |-> r.std, units |-> r.units ]
    /\ UNCHANGED <<pc, segVars, scalarVars, metricVars, speedVars, constructVars,
                   coordinateValues, nRepetitions, cacheVars>>

NextSquat == ComputeRatioPeakAngle

SpecSquat == InitSquat /\ [][NextSquat]_vars

\* ------------------------------------------------ claims: peak-angle ratio
\* the unit a coordinate is expressed in: metres for the translations of
\* the pelvis, degrees for the joint angles
CoordinateUnit(coordinate) == IF coordinate = "pelvis_ty" THEN "m" ELSE "deg"

\* C16: compute_ratio_peak_angle(coordinate_a, coordinate_b) fails with the
\* unit-mismatch error whenever the two coordinates have different units and
\* returns a ratio only when their units agree.
C16_UnitMismatchFails ==
    ( /\ ratio.called
      /\ ratio.coordinate_a \in DOMAIN coordinateValues
      /\ ratio.coordinate_b \in DOMAIN coordinateValues
      /\ ratio.peak_type \in {"maximum", "minimum"} ) =>
        IF CoordinateUnit(ratio.coordinate_a) # CoordinateUnit(ratio.coordinate_b)
        THEN error = "Exception: Units of the two coordinates are not the same."
        ELSE error = "" /\ ratio.units = "%"


\* ------------------------------------- calls on a constructed gait_analysis
\* executions of get_center_of_mass_values followed on one object
MaxComputations == 2

\* lowpass cutoff frequencies passed as filt_freq; -1 leaves the data unfiltered
FiltFreqs == {-1, 6}

Rotations == {"None", "gaitCycle", "y"}

\* get_center_of_mass_values(lowpass_cutoff_frequency = filt_freq), trimmed:
\* the trajectory is told from the others by the cutoff it was filtered with
get_center_of_mass_values(filt_freq) == [ none |-> FALSE, filt_freq |-> filt_freq ]

\* comValues(rotate, filt_freq) on an object whose _comValues is cache;
\* _comValuesRotatedPerGaitCycle and _comValuesRotated are read before
\* anything assigned them
comValues(cache, computations, rotate, filt_freq) ==
    IF rotate = "None"
    THEN IF cache.none \/ filt_freq # -1
         THEN [ error |-> "", cache |-> get_center_of_mass_values(filt_freq),
                computations |-> computations + 1,
                value |-> get_center_of_mass_values(filt_freq) ]
         ELSE [ error |-> "", cache |-> cache, computations |-> computations,
                value |-> cache ]
    ELSE [ error |-> "AttributeError", cache |-> cache, computations |-> computations,
           value |-> NoTrajectory ]

\* R_world_to_gait() on an object whose _R_world_to_gait is set or not
R_world_to_gait(cache, computations) ==
    IF ~ cache
    THEN [ cache |-> TRUE, computations |-> computations + 1 ]
    ELSE [ cache |-> cache, computations |-> computations ]

\* the calculators that read the center of mass and the gait frame
ComReaders == {"gait_speed"}

FrameReaders == {"step_width", "midswing_dorsiflexion_angle", "midswing_ankle_heigh_dif"}

\* names asked of compute_scalars on the constructed object
CalledNames == {"gait_speed", "step_width", "treadmill_speed"}

\* the object gait_analysis.__init__ leaves after a trial of MaxEvents events
\* on distinct frames: the speed of gait_style 'auto' is stored, and rotate_vector_into_gait_frame has asked for the gait frame
\* of every cycle
InitCalls ==
    /\ InitGait
    /\ signal.n = MaxEvents /\ signal.K = {}
    /\ leg = "auto"
    /\ time = [ f \in Frames |-> f ]
    /\ calcX = [ m \in {"r", "L"} |-> [ f \in Frames |-> 0 ] ]
    /\ \E s \in {0, MaxStep} :
          ankleX = [ m \in {"r", "L"} |->
                       [ f \in Frames |->
                           IF m = "r"
                           THEN Travelled([ g \in Range(peaks.rHS) |-> s ], f)
                           ELSE Travelled([ g \in Range(peaks.lHS) |-> s ], f) ] ]
    /\ treadmillSpeed = compute_treadmill_speed(Fin(3, 10), "auto", FALSE).value
    /\ speed = NoSpeedCall
    /\ NoConstructVars
    /\ NoSquatVars
    /\ comCache = NoTrajectory
    /\ comComputations = 0
    /\ \E r \in { IF nGaitCycles > 0 THEN R_world_to_gait(FALSE, 0)
                                   ELSE [ cache |-> FALSE, computations |-> 0 ] } :
          frameCache = r.cache /\ frameComputations = r.computations
    /\ lastCom = NoComCall
    /\ gotEvents = [ called |-> FALSE, value |-> <<>> ]
    /\ NoFrameVars

ComValues ==
    /\ pc = "constructed"
    /\ \E rotate \in Rotations, filt_freq \in FiltFreqs :
       \E r \in { comValues(comCache, comComputations, rotate, filt_freq) } :
          /\ r.computations <= MaxComputations
          /\ comCache' = r.cache
          /\ comComputations' = r.computations
          /\ error' = r.error
          /\ lastCom' = [ called |-> TRUE, rotate |-> rotate, filt_freq |-> filt_freq,
                          value |-> r.value ]
    /\ UNCHANGED <<pc, segVars, scalarVars, metricVars, speedVars, constructVars,
                   squatVars, frameCache, frameComputations, gotEvents, frameVars>>

RWorldToGait ==
    /\ pc = "constructed"
    /\ \E r \in { R_world_to_gait(frameCache, frameComputations) } :
          /\ frameCache' = r.cache
          /\ frameComputations' = r.computations
    /\ error' = ""
    /\ UNCHANGED <<pc, segVars, scalarVars, metricVars, speedVars, constructVars,
                   squatVars, comCache, comComputations, lastCom, gotEvents, frameVars>>

GetGaitEvents ==
    /\ pc = "constructed"
    /\ gotEvents' = [ called |-> TRUE, value |-> gaitEvents ]
    /\ error' = ""
    /\ UNCHANGED <<pc, segVars, scalarVars, metricVars, speedVars, constructVars,
                   squatVars, comCache, comComputations, frameCache, frameComputations,
                   lastCom, frameVars>>

\* compute_scalars([name]) on the constructed object, with what the
\* calculator it invokes asks of comValues() and R_world_to_gait()
GaitComputeScalars ==
    /\ pc = "constructed"
    /\ \E name \in CalledNames, return_all \in BOOLEAN :
       \E r \in { compute_scalars("gait_analysis",
                                  [ none |-> FALSE, list |-> <<name>> ], return_all) },
          c \in { IF name \in ComReaders
                  THEN comValues(comCache, comComputations, "None", -1)
                  ELSE [ error |-> "", cache |-> comCache,
                         computations |-> comComputations, value |-> comCache ] },
          f \in { IF name \in FrameReaders
                  THEN R_world_to_gait(frameCache, frameComputations)
                  ELSE [ cache |-> frameCache, computations |-> frameComputations ] } :
          /\ c.computations <= MaxComputations
          /\ error' = r.error
          /\ scalarDict' = [ none |-> r.none, entries |-> r.dict ]
          /\ invoked' = r.invoked
          /\ message' = r.message
          /\ comCache' = c.cache
          /\ comComputations' = c.computations
          /\ frameCache' = f.cache
          /\ frameComputations' = f.computations
    /\ UNCHANGED <<pc, segVars, call, metricVars, speedVars, constructVars, squatVars,
                   lastCom, gotEvents, frameVars>>

NextCalls ==
    \/ ComputeTreadmillSpeed
    \/ ComValues
    \/ RWorldToGait
    \/ GetGaitEvents
    \/ GaitComputeScalars

SpecCalls == InitCalls /\ [][NextCalls]_vars

\* ------------------------------------------------ claims: constructed object
\* C17: after construction no call to compute_scalars, a calculator
\* (compute_treadmill_speed with another gait_style included), comValues,
\* R_world_to_gait or get_gait_events changes gaitEvents, nGaitCycles,
\* treadmillSpeed or the trimmed marker and coordinate data.
C17_ReadOnlyAfterConstruction ==
    [][ /\ gaitEvents' = gaitEvents
        /\ nGaitCycles' = nGaitCycles
        /\ treadmillSpeed' = treadmillSpeed
        /\ time' = time
        /\ ankleX' = ankleX
        /\ calcX' = calcX ]_vars

\* the belt speed was asked again with gait_style 'overground' on an object
\* that stored the speed of a moving belt at construction, after the other
\* calls
C17_Witness ==
    /\ speed.called /\ speed.gait_style = "overground" /\ ~ speed.return_all
    /\ IsZero(speed.value)
    /\ treadmillSpeed.k = "fin" /\ treadmillSpeed.n > 0
    /\ ~ comCache.none
    /\ lastCom.called
    /\ gotEvents.called
    /\ invoked = <<"gait_speed">>


\* ------------------------------------------------------ compute_gait_frame
\* largest marker displacement along an axis
MaxCoord == 1

Vectors == { <<a, b, c>> : a \in -MaxCoord..MaxCoord, b \in -MaxCoord..MaxCoord,
                           c \in -MaxCoord..MaxCoord }

Dot3(u, v) == u[1] * v[1] + u[2] * v[2] + u[3] * v[3]

Cross3(u, v) ==
    << u[2] * v[3] - u[3] * v[2],
       u[3] * v[1] - u[1] * v[3],
       u[1] * v[2] - u[2] * v[1] >>

\* v / np.linalg.norm(v): a zero vector comes out as nan
normalized(v) == Vec(v, Divide(1, Dot3(v, v)))

\* np.cross(a, b)
np_cross(a, b) == Vec(Cross3(a.dir, b.dir), Mul(a.sq, b.sq))

\* the matrix of one cycle: m.pelvisCenter and m.anklePos are the
\* displacements of the pelvis centre and of the ankle over the cycle,
\* m.asisVector the sum of the ASIS vectors over its frames
compute_gait_frame(m) ==
    LET x      == IF m.treadmillSpeed = 0
                  THEN normalized(m.pelvisCenter)
                  ELSE normalized(m.anklePos)
        z_temp == normalized(m.asisVector)
        y      == np_cross(z_temp, x)
        z      == np_cross(x, y)
    IN  [ computed |-> TRUE, x |-> x, y |-> y, z |-> z ]

InitFrame ==
    /\ pc = "constructed"
    /\ error = ""
    /\ scalarDict = NoDict
    /\ invoked = <<>>
    /\ message = <<>>
    /\ call = NoCall
    /\ peaks = NoPeaks
    /\ orderOk = FALSE
    /\ promIdx = 1
    /\ leg = "auto"
    /\ n_gait_cycles = -1
    /\ gaitEvents = NoEvents
    /\ signal = NoSignal
    /\ NoMetricVars
    /\ NoSpeedVars
    /\ NoConstructVars
    /\ NoSquatVars
    /\ comCache = NoTrajectory
    /\ frameCache = FALSE
    /\ comComputations = 0
    /\ frameComputations = 0
    /\ lastCom = NoComCall
    /\ gotEvents = [ called |-> FALSE, value |-> <<>> ]
    /\ \E belt \in 0..1, d \in Vectors, a \in Vectors :
          markerVectors = [ treadmillSpeed |-> belt,
                            pelvisCenter   |-> IF belt = 0 THEN d ELSE Zero3,
                            anklePos       |-> IF belt = 0 THEN Zero3 ELSE d,
                            asisVector     |-> a ]
    /\ gaitFrame = NoFrame
    /\ NoLaterVars

ComputeGaitFrame ==
    /\ pc = "constructed"
    /\ ~ gaitFrame.computed
    /\ gaitFrame' = compute_gait_frame(markerVectors)
    /\ UNCHANGED <<pc, error, segVars, scalarVars, metricVars, speedVars, constructVars,
                   squatVars, comCache, frameCache, comComputations, frameComputations,
                   lastCom, gotEvents, markerVectors, laterVars>>

NextFrame == ComputeGaitFrame

SpecFrame == InitFrame /\ [][NextFrame]_vars

\* ------------------------------------------------------ claims: gait frame
\* the squared length of a vector
SquaredNorm(a) == Mul(Fin(Dot3(a.dir, a.dir), 1), a.sq)

UnitLength(a) == Same(SquaredNorm(a), Fin(1, 1))

Orthogonal(a, b) == a.sq.k = "fin" /\ b.sq.k = "fin" /\ Dot3(a.dir, b.dir) = 0

\* the forward vector read by compute_gait_frame
Forward == IF markerVectors.treadmillSpeed = 0 THEN markerVectors.pelvisCenter
           ELSE markerVectors.anklePos

\* C18: compute_gait_frame yields an orthonormal matrix for every cycle:
\* the axes x, y = z_seed cross x and z = x cross y are pairwise orthogonal
\* and of unit length for every forward vector and every mediolateral seed
\* that is not along it, seeds not perpendicular to it included.
C18_FrameOrthonormal ==
    ( /\ gaitFrame.computed
      /\ Cross3(markerVectors.asisVector, Forward) # Zero3 ) =>
        /\ Orthogonal(gaitFrame.x, gaitFrame.y)
        /\ Orthogonal(gaitFrame.y, gaitFrame.z)
        /\ Orthogonal(gaitFrame.x, gaitFrame.z)
        /\ UnitLength(gaitFrame.x)
        /\ UnitLength(gaitFrame.y)
        /\ UnitLength(gaitFrame.z)


\* ------------------------------------------- claims: prominence back-off
\* the verdict of the ordering check on the streams found at prominences[j]
DetectOk(j) ==
    LET pk == detect_gait_peaks(signal, j)
    IN  detect_correct_order(pk.rHS, pk.rTO, pk.lHS, pk.lTO)

OrderingError ==
    "ValueError: The ordering of gait events is not correct. Consider trimming your trial using the trimming_start and trimming_end options."

\* where segment_walking stands: every prominence before the current one
\* was tried and failed; past the loop the current one is the first that
\* passes and its streams are the ones segmented; the ordering error is
\* raised only after 0.2 failed, with no event set
C19_State ==
    /\ promIdx \in 1..3
    /\ \A j \in 1..(promIdx - 1) : ~ DetectOk(j)
    /\ (pc \in {"segment", "returned"} \/ (pc = "raised" /\ error # OrderingError)) =>
          /\ DetectOk(promIdx)
          /\ orderOk
          /\ peaks = detect_gait_peaks(signal, promIdx)
    /\ pc = "returned" =>
          gaitEvents = SegmentCycles(peaks, leg, n_gait_cycles).events
    /\ (pc = "raised" /\ error = OrderingError) =>
          /\ promIdx = 3
          /\ prominences[promIdx] = 20
          /\ \A j \in 1..3 : ~ DetectOk(j)
          /\ gaitEvents = NoEvents

\* one step of segment_walking: detection runs at the current prominence,
\* the prominence moves to the next one of 0.3, 0.25, 0.2 only after a
\* failed check, and the streams are kept once the loop is left
C19_Step ==
    /\ pc = "detect" =>
          /\ prominences[promIdx] = <<30, 25, 20>>[promIdx]
          /\ peaks' = detect_gait_peaks(signal, promIdx)
    /\ pc # "detect" => peaks' = peaks /\ promIdx' = promIdx
    /\ promIdx' \in {promIdx, promIdx + 1}
    /\ promIdx' = promIdx + 1 => pc' = "detect" /\ ~ orderOk'
    /\ (pc = "detect" /\ pc' = "detect") => promIdx' = promIdx + 1

\* C19: segment_walking detects peaks with prominence 0.3, then 0.25, then
\* 0.2, at most once each, stops at the first one whose streams pass the
\* ordering check and segments exactly those streams; when 0.2 fails too it
\* raises the error advising trimming and returns no event set.
C19_ProminenceBackOff == [] C19_State /\ [][C19_Step]_vars

\* cycles returned from the streams found at prominence 0.2, after 0.3 and
\* 0.25 failed the check
C19_Witness ==
    /\ pc = "returned"
    /\ promIdx = 3
    /\ Len(Ips) >= 1


\* ------------------------------------------------ claims: memoized values
\* C20: over any sequence of comValues and R_world_to_gait calls on one
\* object, get_center_of_mass_values and compute_gait_frame are each
\* executed at most once, and a default comValues() call returns the same
\* (unfiltered) trajectory whatever calls preceded it.
C20_ComputedAtMostOnce ==
    /\ comComputations <= 1
    /\ frameComputations <= 1
    /\ (lastCom.called /\ lastCom.rotate = "None" /\ lastCom.filt_freq = -1) =>
          lastCom.value = get_center_of_mass_values(-1)


\* -------------------------------------------------------------- leg_length
\* femur plus tibia length of the two legs, told by the markers they are
\* measured on
measured_leg_length ==
    [ none |-> FALSE, ipsilateral |-> get_leg[1], contralateral |-> get_leg[2] ]

\* leg_length() on an object whose _leg_length is cache: the lengths are
\* put in the local name _leg_length, which is unbound when the test fails
leg_length(cache, computations) ==
    IF cache.none
    THEN [ error |-> "", cache |-> cache, computations |-> computations + 1,
           value |-> measured_leg_length ]
    ELSE [ error |-> "UnboundLocalError", cache |-> cache,
           computations |-> computations, value |-> NoLengths ]

LegLength ==
    /\ pc = "constructed"
    /\ \E r \in { leg_length(legCache, legComputations) } :
          /\ r.computations <= MaxComputations
          /\ error' = r.error
          /\ legCache' = r.cache
          /\ legComputations' = r.computations
          /\ lastLeg' = [ called |-> TRUE, value |-> r.value ]
    /\ UNCHANGED <<pc, segVars, scalarVars, metricVars, speedVars, constructVars,
                   squatVars, comCache, frameCache, comComputations, frameComputations,
                   lastCom, gotEvents, markerVectors, gaitFrame, rotated, tailVars>>

NextLeg == LegLength

SpecLeg == InitSupport /\ [][NextLeg]_vars

\* ------------------------------------------------------ claims: leg length
\* C21: leg_length computes the two leg lengths on its first call, stores
\* them in the cache field of the object, and every later call returns the
\* stored value without recomputation and without failing.
C21_LegLengthCached ==
    /\ legComputations <= 1
    /\ lastLeg.called =>
          /\ error = ""
          /\ legCache = measured_leg_length
          /\ lastLeg.value = legCache


\* ------------------------------------------ rotate_vector_into_gait_frame
\* vectorArray[lo:hi] of the loop body: the frames lo, ..., hi - 1
RotationWindow(i) ==
    { f \in Frames : gaitEvents.ipsilateralIdx[i][1] <= f /\ f < gaitEvents.ipsilateralIdx[i][3] }

\* the window with its last frame
RotationWindowClosed(i) ==
    { f \in Frames : gaitEvents.ipsilateralIdx[i][1] <= f /\ f <= gaitEvents.ipsilateralIdx[i][3] }

\* `for i in range(self.nGaitCycles)` from cycle i on: by[f] lists the cycles
\* whose matrix has multiplied frame f so far
RECURSIVE RotateLoop(_, _)
RotateLoop(i, by) ==
    IF i > nGaitCycles
    THEN by
    ELSE RotateLoop(i + 1,
            [ f \in Frames |-> IF f \in RotationWindow(i) THEN Append(by[f], i) ELSE by[f] ])

rotate_vector_into_gait_frame == RotateLoop(1, [ f \in Frames |-> <<>> ])

RotateVectorIntoGaitFrame ==
    /\ pc = "constructed"
    /\ rotated' = [ called |-> TRUE, by |-> rotate_vector_into_gait_frame ]
    /\ error' = ""
    /\ UNCHANGED <<pc, segVars, scalarVars, metricVars, speedVars, constructVars,
                   squatVars, comCache, frameCache, comComputations, frameComputations,
                   lastCom, gotEvents, markerVectors, gaitFrame, legVars, tailVars>>

NextRotate == RotateVectorIntoGaitFrame

SpecRotate == InitSupport /\ [][NextRotate]_vars

\* ------------------------------------------------ claims: rotated frames
\* the cycles that have frame f between their heel-strikes, bounds included
CyclesAt(f) == { i \in 1..nGaitCycles : f \in RotationWindowClosed(i) }

\* the later of the cycles sharing a frame: rows run from the latest cycle
LaterCycle(S) == CHOOSE i \in S : \A j \in S : i <= j

\* C22: after rotate_vector_into_gait_frame every frame from the first to
\* the second heel-strike of each cycle, bounds included, has been rotated
\* by exactly one matrix: its own cycle's, or the later cycle's for a
\* heel-strike shared by two adjacent cycles.
C22_EveryCycleFrameRotatedOnce ==
    rotated.called =>
        \A f \in Frames :
            CyclesAt(f) # {} => rotated.by[f] = << LaterCycle(CyclesAt(f)) >>


\* ------------------------------------------- squat: per-repetition windows
\* the frames of a[lo:hi]
FramesOfSlice(a, lo, hi) == { f \in DOMAIN a : lo <= f /\ f < hi }

\* [rep_range[0]:rep_range[1]+1] of compute_peak_angle and
\* compute_range_of_motion
InclusiveFrames(rep_range) ==
    FramesOfSlice(coordinateValues["pelvis_ty"], rep_range[1], rep_range[2] + 1)

\* data[eventIdx[0]:eventIdx[1]] of get_coordinates_segmented and
\* get_coordinates_segmented_normalized_time
ExclusiveFrames(eventIdx) ==
    FramesOfSlice(coordinateValues["pelvis_ty"], eventIdx[1], eventIdx[2])

peak_angle_frames == [ i \in 1..nRepetitions |-> InclusiveFrames(squatEvents.eventIdxs[i]) ]

range_of_motion_frames == [ i \in 1..nRepetitions |-> InclusiveFrames(squatEvents.eventIdxs[i]) ]

segmented_frames == [ i \in 1..nRepetitions |-> ExclusiveFrames(squatEvents.eventIdxs[i]) ]

\* squat_analysis.compute_range_of_motion(coordinate, return_all=True)
ranges_of_motion(coordinate) ==
    [ i \in 1..nRepetitions |->
        SetMax(RepValues(coordinate, squatEvents.eventIdxs[i])) -
        SetMin(RepValues(coordinate, squatEvents.eventIdxs[i])) ]

\* the rows of one repetition returned by get_coordinates_segmented
coordValuesSegmented ==
    [ i \in 1..nRepetitions |->
        [ c \in DOMAIN coordinateValues |->
            Slice(coordinateValues[c], squatEvents.eventIdxs[i][1],
                  squatEvents.eventIdxs[i][2]) ] ]

Reduction(frames, value) == [ called |-> TRUE, frames |-> frames, value |-> value ]

ComputePeakAngle ==
    /\ pc = "constructed"
    /\ \E coordinate \in DOMAIN coordinateValues, peak_type \in {"maximum", "minimum"} :
       \E r \in { squat_compute_peak_angle(coordinate, peak_type, TRUE) } :
          /\ error' = r.error
          /\ reduced' = [ reduced EXCEPT !["peak_angle"] =
                            Reduction(peak_angle_frames, r.value) ]
    /\ UNCHANGED <<pc, segVars, scalarVars, metricVars, speedVars, constructVars,
                   squatVars, comCache, frameCache, comComputations, frameComputations,
                   lastCom, gotEvents, markerVectors, gaitFrame, legVars, rotated,
                   stride, steps, handlerVars>>

ComputeRangeOfMotion ==
    /\ pc = "constructed"
    /\ \E coordinate \in DOMAIN coordinateValues :
          reduced' = [ reduced EXCEPT !["range_of_motion"] =
                         Reduction(range_of_motion_frames, ranges_of_motion(coordinate)) ]
    /\ error' = ""
    /\ UNCHANGED <<pc, segVars, scalarVars, metricVars, speedVars, constructVars,
                   squatVars, comCache, frameCache, comComputations, frameComputations,
                   lastCom, gotEvents, markerVectors, gaitFrame, legVars, rotated,
                   stride, steps, handlerVars>>

GetCoordinatesSegmented ==
    /\ pc = "constructed"
    /\ reduced' = [ reduced EXCEPT !["segmented"] =
                      Reduction(segmented_frames, coordValuesSegmented) ]
    /\ error' = ""
    /\ UNCHANGED <<pc, segVars, scalarVars, metricVars, speedVars, constructVars,
                   squatVars, comCache, frameCache, comComputations, frameComputations,
                   lastCom, gotEvents, markerVectors, gaitFrame, legVars, rotated,
                   stride, steps, handlerVars>>

\* the repetitions are resampled to 101 points from the rows of the same
\* slice; the resampled values are left out
GetCoordinatesSegmentedNormalizedTime ==
    /\ pc = "constructed"
    /\ reduced' = [ reduced EXCEPT !["segmented_normalized_time"] =
                      Reduction(segmented_frames, <<>>) ]
    /\ error' = ""
    /\ UNCHANGED <<pc, segVars, scalarVars, metricVars, speedVars, constructVars,
                   squatVars, comCache, frameCache, comComputations, frameComputations,
                   lastCom, gotEvents, markerVectors, gaitFrame, legVars, rotated,
                   stride, steps, handlerVars>>

NextWindows ==
    \/ ComputePeakAngle
    \/ ComputeRangeOfMotion
    \/ GetCoordinatesSegmented
    \/ GetCoordinatesSegmentedNormalizedTime

SpecWindows == InitSquat /\ [][NextWindows]_vars

\* ------------------------------------------ claims: per-repetition windows
\* C23: for every repetition all per-repetition consumers reduce over the
\* same set of frames, the one fixed by the event set: compute_peak_angle,
\* compute_range_of_motion, get_coordinates_segmented and
\* get_coordinates_segmented_normalized_time agree on whether the end frame
\* is included.
C23_SameFramesForAllConsumers ==
    \A a \in Consumers, b \in Consumers :
        (reduced[a].called /\ reduced[b].called) => reduced[a].frames = reduced[b].frames


\* ------------------------------------------- claims: repetition bounds
\* the pelvis-height minima detected in the trimmed trial
DetectedMinima ==
    LET highest == SetMax(ValuesOf(pelvis_ty))
    IN  find_peaks([ f \in DOMAIN pelvis_ty |-> highest - pelvis_ty[f] ], height_value)

\* idx is a frame of lo..hi where the pelvis is highest over lo..hi
HighestBetween(lo, hi, idx) ==
    /\ lo <= idx /\ idx <= hi
    /\ \A f \in lo..hi : pelvis_ty[f] <= pelvis_ty[idx]

\* C24: in segment_squat, for each detected pelvis-height minimum m_i the
\* repetition start is the index of the highest pelvis position between the
\* previous minimum (frame 0 for the first) and m_i, and the repetition end
\* the index of the highest pelvis position between m_i and the next
\* minimum (the last frame of the trial for the last repetition).
C24_BoundsAreAdjacentMaxima ==
    SquatSegmented =>
        LET mins == DetectedMinima
            kept == Len(squatEvents.eventIdxs)
            off  == Len(mins) - kept
        IN  /\ off >= 0
            /\ \A k \in 1..kept :
                  LET j    == off + k
                      prev == IF j > 1 THEN mins[j - 1] ELSE 0
                      next == IF j < Len(mins) THEN mins[j + 1]
                              ELSE Size(pelvis_ty) - 1
                  IN  /\ HighestBetween(prev, mins[j], squatEvents.eventIdxs[k][1])
                      /\ HighestBetween(mins[j], next, squatEvents.eventIdxs[k][2])

\* two repetitions of a trial whose pelvis comes back up between them to a
\* height below the standing one
C24_Witness ==
    /\ SquatSegmented
    /\ Len(squatEvents.eventIdxs) = 2
    /\ Len(DetectedMinima) = 2
    /\ pelvis_ty[squatEvents.eventIdxs[1][2]] < pelvis_ty[squatEvents.eventIdxs[1][1]]


\* ------------------------------------------------ claims: cycle chain
\* the events of stream st strictly between lo and hi
EventsIn(st, lo, hi) == { j \in 1..Len(st) : lo < st[j] /\ st[j] < hi }

\* the streams of the leg opposite to lg and the toe-offs of lg
OppositeHS(lg) == IF lg = "r" THEN peaks.lHS ELSE peaks.rHS
OppositeTO(lg) == IF lg = "r" THEN peaks.lTO ELSE peaks.rTO
SameTO(lg)     == IF lg = "r" THEN peaks.rTO ELSE peaks.lTO
SameHS(lg)     == IF lg = "r" THEN peaks.rHS ELSE peaks.lHS

\* C25: whenever the four streams pass the ordering check and no two events
\* share a frame, segment_walking drops no cycle and every returned cycle
\* has heel-strike1 < contralateral toe-off < contralateral heel-strike <
\* ipsilateral toe-off < heel-strike2, with exactly one event of each of
\* the three intermediate kinds inside the window.
C25_FullChain ==
    (orderOk /\ ~ SharedFrame(peaks)) =>
        /\ error # "Exception: No good steps for leg."
        /\ pc = "returned" =>
              LET lg == gaitEvents.ipsilateralLeg
              IN  /\ Len(Ips) = Wanted(n_gait_cycles, Len(SameHS(lg)))
                  /\ \A i \in 1..Len(Ips) :
                        /\ Ips[i][1] < Cont[i][1]
                        /\ Cont[i][1] < Cont[i][2]
                        /\ Cont[i][2] < Ips[i][2]
                        /\ Ips[i][2] < Ips[i][3]
                        /\ Cardinality(EventsIn(OppositeTO(lg), Ips[i][1], Ips[i][3])) = 1
                        /\ Cardinality(EventsIn(OppositeHS(lg), Ips[i][1], Ips[i][3])) = 1
                        /\ Cardinality(EventsIn(SameTO(lg), Ips[i][1], Ips[i][3])) = 1

\* two cycles returned from streams found at a lowered prominence, no two
\* events on the same frame
C25_Witness ==
    /\ pc = "returned"
    /\ ~ SharedFrame(peaks)
    /\ promIdx > 1
    /\ Len(Ips) = 2


\* ------------------------------------------------ claims: order of the rows
\* every index stored in the ipsilateral rows
RowIndices == { Ips[i][c] : i \in 1..Len(Ips), c \in {1, 3} }

Floats(a) == [ i \in 1..Len(a) |-> Fin(a[i], 1) ]

strideLengths ==
    [ i \in 1..nGaitCycles |->
        - calcX[get_leg[1]][gaitEvents.ipsilateralIdx[i][1]]
        + calcX[get_leg[1]][gaitEvents.ipsilateralIdx[i][3]]
        + treadmillSpeed * (ipsilateralTime(i, 3) - ipsilateralTime(i, 1)) ]

compute_stride_length(return_all) ==
    [ value |-> IF return_all THEN strideLengths ELSE np_mean(Floats(strideLengths)),
      units |-> "m" ]

compute_step_length(return_all) ==
    [ value |-> IF return_all THEN step_lengths
                ELSE [ key \in DOMAIN step_lengths |-> np_mean(Floats(step_lengths[key])) ],
      units |-> "m" ]

ComputeStrideLength ==
    /\ pc = "constructed"
    /\ \E return_all \in BOOLEAN :
          stride' = Returned(return_all, compute_stride_length(return_all))
    /\ UNCHANGED <<pc, error, segVars, scalarVars, metricVars, speedVars, constructVars,
                   squatVars, comCache, frameCache, comComputations, frameComputations,
                   lastCom, gotEvents, markerVectors, gaitFrame, legVars, rotated,
                   reduced, steps, handlerVars>>

ComputeStepLength ==
    /\ pc = "constructed"
    /\ \E return_all \in BOOLEAN :
          steps' = Returned(return_all, compute_step_length(return_all))
    /\ UNCHANGED <<pc, error, segVars, scalarVars, metricVars, speedVars, constructVars,
                   squatVars, comCache, frameCache, comComputations, frameComputations,
                   lastCom, gotEvents, markerVectors, gaitFrame, legVars, rotated,
                   reduced, stride, handlerVars>>

NextStride == ComputeStrideLength \/ ComputeStepLength

\* the trials of InitSymmetry whose events fall on distinct frames, analysed
\* with the leg given by the caller
InitStride == InitSymmetry /\ leg \in {"r", "l"} /\ signal.K = {}

SpecStride == InitStride /\ [][NextStride]_vars

\* ------------------------------------------------ claims: stride and steps
\* C27: for every cycle the left step length plus the right step length
\* returned by compute_step_length(return_all=True) equals the stride
\* length returned by compute_stride_length(return_all=True), for every
\* treadmill speed and either ipsilateral leg.
C27_StepsSumToStride ==
    ( /\ stride.called /\ stride.return_all
      /\ steps.called /\ steps.return_all ) =>
        \A i \in 1..nGaitCycles :
            steps.value["l"][i] + steps.value["r"][i] = stride.value[i]

\* a left cycle on a moving belt with a stride that is not zero
C27_Witness ==
    /\ stride.called /\ stride.return_all
    /\ steps.called /\ steps.return_all
    /\ gaitEvents.ipsilateralLeg = "l"
    /\ treadmillSpeed > 0
    /\ nGaitCycles = 2
    /\ steps.value["l"][1] # steps.value["r"][1]
    /\ stride.value[1] > 0


\* ------------------------------------------ claims: range of double support
\* a percentage strictly between 0 and 100
StrictPercentage(x) == x.k = "fin" /\ 0 < x.n /\ x.n < 100 * x.d

\* C28: for every cycle of an event set produced from validly ordered
\* streams the per-cycle double support percentage is strictly greater than
\* 0 and strictly less than 100, and so is the single support percentage.
C28_DoubleSupportInRange ==
    /\ (doubleSupport.called /\ doubleSupport.return_all) =>
          \A i \in 1..nGaitCycles : StrictPercentage(doubleSupport.value[i])
    /\ (singleSupport.called /\ singleSupport.return_all) =>
          \A i \in 1..nGaitCycles : StrictPercentage(singleSupport.value[i])

\* two cycles measured, one of them on a trial where two events share a
\* frame
C28_Witness ==
    /\ doubleSupport.called /\ doubleSupport.return_all
    /\ singleSupport.called /\ singleSupport.return_all
    /\ nGaitCycles = 2
    /\ SharedFrame(peaks)


\* ------------------------------------------- claims: tiling repetitions
\* C29: in every repetition event set returned by segment_squat each
\* repetition has start < end with its detected minimum in (start, end],
\* and the end index of a repetition is the start index of the next one.
C29_RepetitionsTile ==
    SquatSegmented =>
        LET mins == DetectedMinima
            reps == squatEvents.eventIdxs
            off  == Len(mins) - Len(reps)
        IN  /\ off >= 0
            /\ \A k \in 1..Len(reps) :
                  /\ reps[k][1] < reps[k][2]
                  /\ reps[k][1] < mins[off + k]
                  /\ mins[off + k] <= reps[k][2]
            /\ \A k \in 1..(Len(reps) - 1) : reps[k][2] = reps[k + 1][1]

\* two repetitions that meet on a frame other than the highest of the trial
C29_Witness ==
    /\ SquatSegmented
    /\ Len(squatEvents.eventIdxs) = 2
    /\ squatEvents.eventIdxs[1][2] = squatEvents.eventIdxs[2][1]
    /\ pelvis_ty[squatEvents.eventIdxs[2][1]] < SetMax(ValuesOf(pelvis_ty))

\* ------------------------------------------------ gait_analysis handler
RequiredFields == <<"session_id", "specific_trial_names">>

scalar_names == {"gait_speed", "stride_length", "step_width", "cadence",
                 "double_support_time", "step_length_symmetry"}

scalar_labels ==
    [ gait_speed           |-> "Gait speed (m/s)",
      stride_length        |-> "Stride length (m)",
      step_width           |-> "Step width (cm)",
      cadence              |-> "Cadence (steps/min)",
      double_support_time  |-> "Double support (% gait cycle)",
      step_length_symmetry |-> "Step length symmetry (%, R/L)" ]

scalar_units ==
    [ gait_speed           |-> "m/s",
      stride_length        |-> "m",
      step_width           |-> "m",
      cadence              |-> "steps/min",
      double_support_time  |-> "%",
      step_length_symmetry |-> "% (R/L)" ]

\* gait_scalars[name]['decimal'] = ...
scalar_decimals ==
    [ gait_speed           |-> 2,
      step_width           |-> 2,
      stride_length        |-> 2,
      cadence              |-> 1,
      double_support_time  |-> 1,
      step_length_symmetry |-> 1 ]

scalar_reverse_colors == {"double_support_time"}

scalar_centered == {"step_length_symmetry", "step_width"}

\* the values compute_scalars can hand to the handler, and the heights the
\* session metadata can hold, in metres
ScalarValues == { Fin(1, 1), Fin(5, 4) }

SubjectHeights == { Fin(3, 2), Fin(9, 5) }

\* x * n/d, n/d a literal of the source
Scaled(x, n, d) == Over(Times(x, n), d)

\* np.round(x, decimal) of a float
round_to(x, decimal) ==
    IF x.k = "fin"
    THEN Fin(np_round(x.n * 10 ^ decimal, x.d), 10 ^ decimal)
    ELSE x

\* the dictionary thresholds for a subject of height subject_height
thresholds_of(subject_height) ==
    [ gait_speed           |-> [ value |-> <<Fin(67, 60)>>, decimal |-> 2 ],
      step_width           |-> [ value |-> <<Scaled(subject_height, 43, 10),
                                            Scaled(subject_height, 74, 10)>>,
                                 decimal |-> 2 ],
      stride_length        |-> [ value |-> <<Scaled(subject_height, 45, 100)>>,
                                 decimal |-> 2 ],
      cadence              |-> [ value |-> <<Fin(100, 1)>>, decimal |-> 1 ],
      double_support_time  |-> [ value |-> <<Fin(35, 1)>>, decimal |-> 1 ],
      step_length_symmetry |-> [ value |-> <<Fin(90, 1), Fin(110, 1)>>,
                                 decimal |-> 1 ] ]

\* gait[last_leg].compute_scalars(scalar_names) followed by the assignments
\* of 'decimal'
scalars_with_decimals(values) ==
    [ name \in scalar_names |->
        ("value" :> values[name] @@ "units" :> scalar_units[name]
         @@ "decimal" :> scalar_decimals[name]) ]

\* "Change units": the dictionary is rebuilt from its keys, then the
\* multiplier of step_width is set
change_units(scalars) ==
    [ key \in DOMAIN scalars |->
        ("multiplier" :> (IF key = "step_width" THEN 100 ELSE 1)) ]

\* the first key of gait_scalars[scalar_name] the loop body reads that the
\* dictionary does not hold, "" when it holds them all
missing_key(scalar) ==
    IF "value" \notin DOMAIN scalar THEN "value"
    ELSE IF "multiplier" \notin DOMAIN scalar THEN "multiplier"
    ELSE IF "decimal" \notin DOMAIN scalar THEN "decimal"
    ELSE ""

KeyError == [ value      |-> "KeyError: 'value'",
              multiplier |-> "KeyError: 'multiplier'",
              decimal    |-> "KeyError: 'decimal'" ]

\* metrics_out[scalar_name] after one pass of the loop body
metrics_entry(scalar_name, scalar, threshold) ==
    LET vertical_values ==
            round_to(Times(scalar["value"], scalar["multiplier"]), scalar["decimal"])
        first  == threshold.value[1]
        second == threshold.value[Len(threshold.value)]
    IN  IF scalar_name \in scalar_reverse_colors
        THEN [ label     |-> scalar_labels[scalar_name],
               value     |-> vertical_values,
               colors    |-> <<"green", "yellow", "red">>,
               min_limit |-> round_to(first, threshold.decimal),
               max_limit |-> round_to(Scaled(first, 11, 10), threshold.decimal) ]
        ELSE IF scalar_name \in scalar_centered
        THEN [ label     |-> scalar_labels[scalar_name],
               value     |-> vertical_values,
               colors    |-> <<"red", "green", "red">>,
               min_limit |-> round_to(first, threshold.decimal),
               max_limit |-> round_to(second, threshold.decimal) ]
        ELSE [ label     |-> scalar_labels[scalar_name],
               value     |-> vertical_values,
               colors    |-> <<"red", "yellow", "green">>,
               min_limit |-> round_to(Scaled(first, 9, 10), threshold.decimal),
               max_limit |-> round_to(first, threshold.decimal) ]

\* the first required field the body does not carry, "" when it has both
missing_field(body) ==
    IF RequiredFields[1] \notin body THEN RequiredFields[1]
    ELSE IF RequiredFields[2] \notin body THEN RequiredFields[2]
    ELSE ""

FieldRequired == [ session_id           |-> "session_id field is required.",
                   specific_trial_names |-> "specific_trial_names field is required." ]

\* a downloaded trial whose events are all detected at the first prominence,
\* before the handler is invoked
InitHandler ==
    /\ pc = "handler"
    /\ error = ""
    /\ signal \in { g \in WalkingSignals : g.missed = <<0, 0, 0>> }
    /\ leg = "r"
    /\ n_gait_cycles = 1
    /\ promIdx = 1
    /\ peaks = detect_gait_peaks(signal, promIdx)
    /\ orderOk = detect_correct_order(peaks.rHS, peaks.rTO, peaks.lHS, peaks.lTO)
    /\ orderOk
    /\ gaitEvents = NoEvents
    /\ \E dt \in 1..MaxDt : time = [ f \in Frames |-> dt * f ]
    /\ NoScalarVars
    /\ doubleSupport = NoReturn
    /\ singleSupport = NoReturn
    /\ symmetry = NoReturn
    /\ treadmillSpeed = 0
    /\ calcX = [ m \in {"r", "L"} |-> [ f \in Frames |-> 0 ] ]
    /\ NoExtraVars

\* kwargs = json.loads(event['body']) and the check of the required fields
HandlerParseBody ==
    /\ pc = "handler"
    /\ \E body \in SUBSET { RequiredFields[1], RequiredFields[2] } :
          /\ kwargs' = body
          /\ IF missing_field(body) # ""
             THEN /\ response' = [ statusCode |-> 400,
                                   body |-> [ error |-> FieldRequired[missing_field(body)] ] ]
                  /\ pc' = "returned"
             ELSE /\ response' = response
                  /\ pc' = "events"
    /\ UNCHANGED <<error, segVars, scalarVars, metricVars, speedVars, constructVars,
                   squatVars, comCache, frameCache, comComputations, frameComputations,
                   lastCom, gotEvents, markerVectors, gaitFrame, legVars, rotated,
                   reduced, stride, steps, gait_events, last_leg, gait_scalars,
                   thresholds, pending, metrics_out>>

\* `for leg in legs`: one gait_analysis object and its events per leg, then
\* the choice of the last leg
HandlerGaitEvents ==
    /\ pc = "events"
    /\ LET r == [ lg \in {"r", "l"} |-> SegmentCycles(peaks, lg, n_gait_cycles) ]
           ipsilateral == [ lg \in {"r", "l"} |-> time[r[lg].events.ipsilateralIdx[1][3]] ]
       IN  IF r["r"].error # ""
           THEN /\ error' = r["r"].error
                /\ pc' = "raised"
                /\ UNCHANGED <<gait_events, last_leg>>
           ELSE IF r["l"].error # ""
           THEN /\ error' = r["l"].error
                /\ pc' = "raised"
                /\ UNCHANGED <<gait_events, last_leg>>
           ELSE /\ gait_events' = [ lg \in {"r", "l"} |-> r[lg].events ]
                /\ last_leg' = IF ipsilateral["r"] > ipsilateral["l"] THEN "r" ELSE "l"
                /\ pc' = "scalars"
                /\ error' = error
    /\ UNCHANGED <<segVars, scalarVars, metricVars, speedVars, constructVars,
                   squatVars, comCache, frameCache, comComputations, frameComputations,
                   lastCom, gotEvents, markerVectors, gaitFrame, legVars, rotated,
                   reduced, stride, steps, kwargs, gait_scalars, thresholds, pending,
                   metrics_out, response>>

\* "Compute scalars": compute_scalars and the six assignments of 'decimal'
HandlerComputeScalars ==
    /\ pc = "scalars"
    /\ \E values \in [ scalar_names -> ScalarValues ] :
          gait_scalars' = scalars_with_decimals(values)
    /\ pc' = "units"
    /\ UNCHANGED <<error, segVars, scalarVars, metricVars, speedVars, constructVars,
                   squatVars, comCache, frameCache, comComputations, frameComputations,
                   lastCom, gotEvents, markerVectors, gaitFrame, legVars, rotated,
                   reduced, stride, steps, kwargs, gait_events, last_leg, thresholds,
                   pending, metrics_out, response>>

\* "Change units" and "Thresholds", up to metrics_out = {}
HandlerChangeUnits ==
    /\ pc = "units"
    /\ gait_scalars' = change_units(gait_scalars)
    /\ \E subject_height \in SubjectHeights :
          thresholds' = thresholds_of(subject_height)
    /\ pending' = scalar_names
    /\ metrics_out' = <<>>
    /\ pc' = "metrics"
    /\ UNCHANGED <<error, segVars, scalarVars, metricVars, speedVars, constructVars,
                   squatVars, comCache, frameCache, comComputations, frameComputations,
                   lastCom, gotEvents, markerVectors, gaitFrame, legVars, rotated,
                   reduced, stride, steps, kwargs, gait_events, last_leg, response>>

\* one pass of `for scalar_name in scalar_names`, in the order the set
\* yields its names, and after the last pass the return of the results
HandlerMetrics ==
    /\ pc = "metrics"
    /\ \E scalar_name \in pending :
          LET scalar == gait_scalars[scalar_name]
              idx    == gait_events[last_leg].ipsilateralIdx[1]
          IN  IF missing_key(scalar) # ""
              THEN /\ error' = KeyError[missing_key(scalar)]
                   /\ pc' = "raised"
                   /\ metrics_out' = [ n \in DOMAIN metrics_out \cup {scalar_name} |->
                                         IF n = scalar_name THEN <<>> ELSE metrics_out[n] ]
                   /\ UNCHANGED <<pending, response>>
              ELSE /\ metrics_out' =
                         [ n \in DOMAIN metrics_out \cup {scalar_name} |->
                             IF n = scalar_name
                             THEN metrics_entry(scalar_name, scalar, thresholds[scalar_name])
                             ELSE metrics_out[n] ]
                   /\ pending' = pending \ {scalar_name}
                   /\ error' = error
                   /\ IF pending' = {}
                      THEN /\ response' =
                                 [ statusCode |-> 200,
                                   body |-> [ indices |-> [ start |-> time[idx[1]],
                                                            end   |-> time[idx[3]] ],
                                              metrics |-> metrics_out' ] ]
                           /\ pc' = "returned"
                      ELSE /\ response' = response
                           /\ pc' = "metrics"
    /\ UNCHANGED <<segVars, scalarVars, metricVars, speedVars, constructVars,
                   squatVars, comCache, frameCache, comComputations, frameComputations,
                   lastCom, gotEvents, markerVectors, gaitFrame, legVars, rotated,
                   reduced, stride, steps, kwargs, gait_events, last_leg, gait_scalars,
                   thresholds>>

NextHandler ==
    \/ HandlerParseBody
    \/ HandlerGaitEvents
    \/ HandlerComputeScalars
    \/ HandlerChangeUnits
    \/ HandlerMetrics

SpecHandler == InitHandler /\ [][NextHandler]_vars

\* ------------------------------------------------ claims: gait handler
HandlerDone == pc \in {"returned", "raised"}

BothLegsSegmented == DOMAIN gait_events = {"r", "l"}

EntryKeys == {"label", "value", "colors", "min_limit", "max_limit"}

\* C30: when the request carries both required fields and both legs are
\* segmented, the overground gait handler ends by returning statusCode 200
\* with a metrics entry of five keys for each of the six scalars, no key of
\* gait_scalars being missing when it is read
C30_HandlerAnswers200 ==
    (HandlerDone /\ missing_field(kwargs) = "" /\ BothLegsSegmented) =>
        /\ error = ""
        /\ response.statusCode = 200
        /\ DOMAIN response.body.metrics = scalar_names
        /\ \A n \in scalar_names : DOMAIN response.body.metrics[n] = EntryKeys

====
